---- MODULE Spec2Model ----
(***************************************************************************)
(* A model of the numeric core of soh_math: square matrices (Mat2, Mat3,   *)
(* Mat4), vectors and quaternions.                                         *)
(*                                                                         *)
(* Scalars.  The library is generic over its scalar type T.  The model's   *)
(* scalar is an exact rational <<n, d>> in lowest terms with d > 0, which  *)
(* covers the integer instantiations (d = 1) and idealises the floating    *)
(* point ones.  The three non-finite floating point values are kept:       *)
(* <<1, 0>> is +Inf, <<-1, 0>> is -Inf and <<0, 0>> is NaN, with the IEEE  *)
(* rules for them (x/0, 0/0, Inf - Inf, 0 * Inf, comparisons with NaN).    *)
(*                                                                         *)
(* Arrays.  A Rust array [T; k] is a sequence of length k; the element     *)
(* self.0[i] of the source (zero indexed) is E(m, i) == m[i + 1].          *)
(*                                                                         *)
(* Each operation of the library is an action that draws its arguments     *)
(* from a bounded set, applies the operation as the source computes it and *)
(* records the call in op, args and res.                                   *)
(***************************************************************************)
EXTENDS Integers, Sequences, FiniteSets, TLC

\* The record of the last call: the operation, its arguments, and its result
\* (or, while it runs, its locals).
VARIABLES op, args, res

\* The thread pool of soh_thread: the jobs and the counter of JOB_QUEUE, the
\* channel to the workers, the worker threads, the sender of the pool, and the
\* history of the jobs (how many were added, which were sent, in order).
VARIABLES jobs, in_process, channel, workers, sender, added, sent, finished
VARIABLES camera

poolVars == <<jobs, in_process, channel, workers, sender, added, sent, finished>>

vars == <<op, args, res, jobs, in_process, channel, workers, sender, added, sent, finished, camera>>

\* The state before any call: JOB_QUEUE is JobQueue::new(), no pool is built,
\* no job has finished and no camera is made.
Init ==
    /\ op = "init"
    /\ args = <<>>
    /\ res = <<>>
    /\ jobs = <<>>
    /\ in_process = 0
    /\ channel = <<>>
    /\ workers = <<>>
    /\ sender = "unbuilt"
    /\ added = 0
    /\ sent = <<>>
    /\ finished = <<>>
    /\ camera = [built |-> FALSE]

\* No call is recorded: the next call can be made.
Idle == op = "init"

\* The caller takes the result; the record of the call is cleared.
Return ==
    /\ op # "init"
    /\ op' = "init"
    /\ args' = <<>>
    /\ res' = <<>>
    /\ UNCHANGED <<poolVars, camera>>

----------------------------------------------------------------------------
(* Exact scalar arithmetic *)

Abs(x) == IF x < 0 THEN -x ELSE x

Sgn(x) == IF x < 0 THEN -1 ELSE IF x > 0 THEN 1 ELSE 0

RECURSIVE GCD(_, _)
GCD(a, b) == IF b = 0 THEN a ELSE GCD(b, a % b)

\* The scalar n/d in lowest terms; d = 0 gives +Inf, -Inf or NaN.
Norm(n, d) ==
    IF d = 0 THEN <<Sgn(n), 0>>
    ELSE IF d = 1 THEN <<n, 1>>
    ELSE LET g == GCD(Abs(n), Abs(d))
             s == IF d < 0 THEN -1 ELSE 1
         IN  <<(s * n) \div g, (s * d) \div g>>

R(n) == <<n, 1>>

NaN == <<0, 0>>

IsFinite(a) == a[2] # 0

IsNaN(a) == a[1] = 0 /\ a[2] = 0

RAdd(a, b) ==
    IF a[2] = 1 /\ b[2] = 1 THEN <<a[1] + b[1], 1>>
    ELSE IF a[2] = 0 /\ b[2] = 0 THEN (IF a[1] = b[1] THEN a ELSE NaN)
    ELSE IF a[2] = 0 THEN a
    ELSE IF b[2] = 0 THEN b
    ELSE LET g == GCD(a[2], b[2])
         IN  Norm(a[1] * (b[2] \div g) + b[1] * (a[2] \div g), (a[2] \div g) * b[2])

Neg(a) == <<-a[1], a[2]>>

RSub(a, b) == RAdd(a, Neg(b))

RMul(a, b) ==
    IF a[2] = 1 /\ b[2] = 1 THEN <<a[1] * b[1], 1>>
    ELSE Norm(a[1] * b[1], a[2] * b[2])

RDiv(a, b) ==
    LET s == IF b[1] < 0 THEN -1 ELSE 1
    IN  Norm(s * a[1] * b[2], s * a[2] * b[1])

\* a < b as the floating point comparison: false when either side is NaN.
RLt(a, b) ==
    IF IsNaN(a) \/ IsNaN(b) THEN FALSE
    ELSE IF a[2] = 0 /\ b[2] = 0 THEN a[1] < b[1]
    ELSE IF a[2] = 0 THEN a[1] < 0
    ELSE IF b[2] = 0 THEN b[1] > 0
    ELSE RSub(a, b)[1] < 0

a ++ b == RAdd(a, b)
a -- b == RSub(a, b)
a ** b == RMul(a, b)
a // b == RDiv(a, b)

ZERO == R(0)
ONE == R(1)
TWO == R(2)

\* self.0[i]
E(m, i) == m[i + 1]

\* A sequence of integers as a sequence of scalars.
Lift(s) == [i \in 1..Len(s) |-> R(s[i])]

----------------------------------------------------------------------------
(* Matrices: column major arrays of N * N scalars (mat2.rs, mat3.rs, mat4.rs) *)

\* Mat2::at: the element at row `row` and column `col` (zero indexed).
Mat2_at(m, row, col) == E(m, col * 2 + row)

\* Mat2::at_mut: the place the returned reference designates.
Mat2_at_mut(row, col) == col * 2 + row

Mat2_from_rows(rows) ==
    <<
        rows[1].x, rows[2].x,
        rows[1].y, rows[2].y
    >>

Mat2_from_cols(cols) ==
    <<
        cols[1].x, cols[1].y,
        cols[2].x, cols[2].y
    >>

Mat2_row(m, row) ==
    [
        x |-> Mat2_at(m, row, 0),
        y |-> Mat2_at(m, row, 1)
    ]

Mat2_col(m, col) ==
    [
        x |-> Mat2_at(m, 0, col),
        y |-> Mat2_at(m, 1, col)
    ]

Mat2_identity ==
    <<
        ONE, ZERO,
        ZERO, ONE
    >>

Mat2_scale(factor) ==
    <<
        factor, ZERO,
        ZERO, factor
    >>

Mat2_det(m) ==
    E(m, 0) ** E(m, 3) -- E(m, 1) ** E(m, 2)

Mat2_t(m) ==
    <<
        E(m, 0), E(m, 2),
        E(m, 1), E(m, 3)
    >>

Mat2_invert_no_det(m) ==
    <<
        E(m, 3), Neg(E(m, 1)),
        Neg(E(m, 2)), E(m, 0)
    >>

Mat2_add(m, rhs) ==
    <<
        E(m, 0) ++ E(rhs, 0),
        E(m, 1) ++ E(rhs, 1),
        E(m, 2) ++ E(rhs, 2),
        E(m, 3) ++ E(rhs, 3)
    >>

Mat2_sub(m, rhs) ==
    <<
        E(m, 0) -- E(rhs, 0),
        E(m, 1) -- E(rhs, 1),
        E(m, 2) -- E(rhs, 2),
        E(m, 3) -- E(rhs, 3)
    >>

Mat2_mul_scalar(m, rhs) ==
    <<
        E(m, 0) ** rhs,
        E(m, 1) ** rhs,
        E(m, 2) ** rhs,
        E(m, 3) ** rhs
    >>

Mat2_mul_vec(m, rhs) ==
    [
        x |-> E(m, 0) ** rhs.x ++ E(m, 2) ** rhs.y,
        y |-> E(m, 1) ** rhs.x ++ E(m, 3) ** rhs.y
    ]

Mat2_mul(m, rhs) ==
    <<
        E(m, 0) ** E(rhs, 0) ++ E(m, 2) ** E(rhs, 1),
        E(m, 1) ** E(rhs, 0) ++ E(m, 3) ** E(rhs, 1),
        E(m, 0) ** E(rhs, 2) ++ E(m, 2) ** E(rhs, 3),
        E(m, 1) ** E(rhs, 2) ++ E(m, 3) ** E(rhs, 3)
    >>

Mat2_div(m, rhs) ==
    <<
        E(m, 0) // rhs,
        E(m, 1) // rhs,
        E(m, 2) // rhs,
        E(m, 3) // rhs
    >>

Mat2_invert(m) == Mat2_div(Mat2_invert_no_det(m), Mat2_det(m))

\* Mat3::at addressing the array row major.
Mat3_at_row_major(m, row, col) == E(m, row * 3 + col)

\* Mat3::at: the element at row `row` and column `col` (zero indexed).
Mat3_at(m, row, col) == E(m, col * 3 + row)

\* Mat3::at_mut: the place the returned reference designates.
Mat3_at_mut(row, col) == col * 3 + row

Mat3_from_rows(rows) ==
    <<
        rows[1].x, rows[2].x, rows[3].x,
        rows[1].y, rows[2].y, rows[3].y,
        rows[1].z, rows[2].z, rows[3].z
    >>

Mat3_from_cols(cols) ==
    <<
        cols[1].x, cols[1].y, cols[1].z,
        cols[2].x, cols[2].y, cols[2].z,
        cols[3].x, cols[3].y, cols[3].z
    >>

Mat3_row(m, row) ==
    [
        x |-> Mat3_at(m, row, 0),
        y |-> Mat3_at(m, row, 1),
        z |-> Mat3_at(m, row, 2)
    ]

Mat3_col(m, col) ==
    [
        x |-> Mat3_at(m, 0, col),
        y |-> Mat3_at(m, 1, col),
        z |-> Mat3_at(m, 2, col)
    ]

Mat3_identity ==
    <<
        ONE, ZERO, ZERO,
        ZERO, ONE, ZERO,
        ZERO, ZERO, ONE
    >>

Mat3_scale(factor) ==
    <<
        factor, ZERO, ZERO,
        ZERO, factor, ZERO,
        ZERO, ZERO, factor
    >>

Mat3_det(m) ==
    E(m, 0) ** (E(m, 4) ** E(m, 8) -- E(m, 7) ** E(m, 5))
    ++ E(m, 3) ** (E(m, 7) ** E(m, 2) -- E(m, 1) ** E(m, 8))
    ++ E(m, 6) ** (E(m, 1) ** E(m, 5) -- E(m, 4) ** E(m, 2))

Mat3_t(m) ==
    <<
        E(m, 0), E(m, 3), E(m, 6),
        E(m, 1), E(m, 4), E(m, 7),
        E(m, 2), E(m, 5), E(m, 8)
    >>

Mat3_invert_no_det(m) ==
    <<
        (E(m, 4) ** E(m, 8) -- E(m, 7) ** E(m, 5)),
        (E(m, 7) ** E(m, 2) -- E(m, 1) ** E(m, 8)),
        (E(m, 1) ** E(m, 5) -- E(m, 4) ** E(m, 2)),
        (E(m, 6) ** E(m, 5) -- E(m, 3) ** E(m, 8)),
        (E(m, 0) ** E(m, 8) -- E(m, 6) ** E(m, 2)),
        (E(m, 3) ** E(m, 2) -- E(m, 0) ** E(m, 5)),
        (E(m, 3) ** E(m, 7) -- E(m, 6) ** E(m, 4)),
        (E(m, 6) ** E(m, 1) -- E(m, 0) ** E(m, 7)),
        (E(m, 0) ** E(m, 4) -- E(m, 3) ** E(m, 1))
    >>

Mat3_add(m, rhs) ==
    <<
        E(m, 0) ++ E(rhs, 0),
        E(m, 1) ++ E(rhs, 1),
        E(m, 2) ++ E(rhs, 2),
        E(m, 3) ++ E(rhs, 3),
        E(m, 4) ++ E(rhs, 4),
        E(m, 5) ++ E(rhs, 5),
        E(m, 6) ++ E(rhs, 6),
        E(m, 7) ++ E(rhs, 7),
        E(m, 8) ++ E(rhs, 8)
    >>

Mat3_sub(m, rhs) ==
    <<
        E(m, 0) -- E(rhs, 0),
        E(m, 1) -- E(rhs, 1),
        E(m, 2) -- E(rhs, 2),
        E(m, 3) -- E(rhs, 3),
        E(m, 4) -- E(rhs, 4),
        E(m, 5) -- E(rhs, 5),
        E(m, 6) -- E(rhs, 6),
        E(m, 7) -- E(rhs, 7),
        E(m, 8) -- E(rhs, 8)
    >>

Mat3_mul_scalar(m, rhs) ==
    <<
        E(m, 0) ** rhs,
        E(m, 1) ** rhs,
        E(m, 2) ** rhs,
        E(m, 3) ** rhs,
        E(m, 4) ** rhs,
        E(m, 5) ** rhs,
        E(m, 6) ** rhs,
        E(m, 7) ** rhs,
        E(m, 8) ** rhs
    >>

Mat3_mul_vec(m, rhs) ==
    [
        x |-> E(m, 0) ** rhs.x ++ E(m, 3) ** rhs.y ++ E(m, 6) ** rhs.z,
        y |-> E(m, 1) ** rhs.x ++ E(m, 4) ** rhs.y ++ E(m, 7) ** rhs.z,
        z |-> E(m, 2) ** rhs.x ++ E(m, 5) ** rhs.y ++ E(m, 8) ** rhs.z
    ]

Mat3_mul(m, rhs) ==
    <<
        E(m, 0) ** E(rhs, 0) ++ E(m, 3) ** E(rhs, 1) ++ E(m, 6) ** E(rhs, 2),
        E(m, 1) ** E(rhs, 0) ++ E(m, 4) ** E(rhs, 1) ++ E(m, 7) ** E(rhs, 2),
        E(m, 2) ** E(rhs, 0) ++ E(m, 5) ** E(rhs, 1) ++ E(m, 8) ** E(rhs, 2),
        E(m, 0) ** E(rhs, 3) ++ E(m, 3) ** E(rhs, 4) ++ E(m, 6) ** E(rhs, 5),
        E(m, 1) ** E(rhs, 3) ++ E(m, 4) ** E(rhs, 4) ++ E(m, 7) ** E(rhs, 5),
        E(m, 2) ** E(rhs, 3) ++ E(m, 5) ** E(rhs, 4) ++ E(m, 8) ** E(rhs, 5),
        E(m, 0) ** E(rhs, 6) ++ E(m, 3) ** E(rhs, 7) ++ E(m, 6) ** E(rhs, 8),
        E(m, 1) ** E(rhs, 6) ++ E(m, 4) ** E(rhs, 7) ++ E(m, 7) ** E(rhs, 8),
        E(m, 2) ** E(rhs, 6) ++ E(m, 5) ** E(rhs, 7) ++ E(m, 8) ** E(rhs, 8)
    >>

Mat3_div(m, rhs) ==
    <<
        E(m, 0) // rhs,
        E(m, 1) // rhs,
        E(m, 2) // rhs,
        E(m, 3) // rhs,
        E(m, 4) // rhs,
        E(m, 5) // rhs,
        E(m, 6) // rhs,
        E(m, 7) // rhs,
        E(m, 8) // rhs
    >>

Mat3_neg(m) ==
    <<
        Neg(E(m, 0)),
        Neg(E(m, 1)),
        Neg(E(m, 2)),
        Neg(E(m, 3)),
        Neg(E(m, 4)),
        Neg(E(m, 5)),
        Neg(E(m, 6)),
        Neg(E(m, 7)),
        Neg(E(m, 8))
    >>

\* The divisor of Mat3::invert, its local det, for inv the matrix of
\* invert_no_det().
Mat3_invert_det(m, inv) ==
    E(m, 0) ** E(inv, 0)
    ++ E(m, 3) ** E(inv, 1)
    ++ E(m, 6) ** E(inv, 2)

Mat3_invert(m) ==
    LET inv == Mat3_invert_no_det(m)
        det == Mat3_invert_det(m, inv)
    IN  Mat3_div(inv, det)

\* Mat4::at: the element at row `row` and column `col` (zero indexed).
Mat4_at(m, row, col) == E(m, col * 4 + row)

\* Mat4::at_mut: the place the returned reference designates.
Mat4_at_mut(row, col) == col * 4 + row

Mat4_from_rows(rows) ==
    <<
        rows[1].x, rows[2].x, rows[3].x, rows[4].x,
        rows[1].y, rows[2].y, rows[3].y, rows[4].y,
        rows[1].z, rows[2].z, rows[3].z, rows[4].z,
        rows[1].w, rows[2].w, rows[3].w, rows[4].w
    >>

Mat4_from_cols(cols) ==
    <<
        cols[1].x, cols[1].y, cols[1].z, cols[1].w,
        cols[2].x, cols[2].y, cols[2].z, cols[2].w,
        cols[3].x, cols[3].y, cols[3].z, cols[3].w,
        cols[4].x, cols[4].y, cols[4].z, cols[4].w
    >>

Mat4_row(m, row) ==
    [
        x |-> Mat4_at(m, row, 0),
        y |-> Mat4_at(m, row, 1),
        z |-> Mat4_at(m, row, 2),
        w |-> Mat4_at(m, row, 3)
    ]

Mat4_col(m, col) ==
    [
        x |-> Mat4_at(m, 0, col),
        y |-> Mat4_at(m, 1, col),
        z |-> Mat4_at(m, 2, col),
        w |-> Mat4_at(m, 3, col)
    ]

Mat4_identity ==
    <<
        ONE, ZERO, ZERO, ZERO,
        ZERO, ONE, ZERO, ZERO,
        ZERO, ZERO, ONE, ZERO,
        ZERO, ZERO, ZERO, ONE
    >>

Mat4_scale(factor) ==
    <<
        factor, ZERO, ZERO, ZERO,
        ZERO, factor, ZERO, ZERO,
        ZERO, ZERO, factor, ZERO,
        ZERO, ZERO, ZERO, factor
    >>

\* Mat4::det with the sign of one cofactor term wrong.
Mat4_det_sign_slip(m) ==
    E(m, 0) ** (E(m, 5) ** (E(m, 10) ** E(m, 15) -- E(m, 14) ** E(m, 11))
    ++ E(m, 9) ** (E(m, 14) ** E(m, 7) -- E(m, 6) ** E(m, 15))
    ++ E(m, 13) ** (E(m, 6) ** E(m, 11) -- E(m, 10) ** E(m, 7)))
    ++ E(m, 4) ** (E(m, 1) ** (E(m, 14) ** E(m, 11) -- E(m, 10) ** E(m, 15))
    ++ E(m, 9) ** (E(m, 14) ** E(m, 3) -- E(m, 2) ** E(m, 15))
    ++ E(m, 13) ** (E(m, 10) ** E(m, 3) -- E(m, 2) ** E(m, 11)))
    ++ E(m, 8) ** (E(m, 1) ** (E(m, 6) ** E(m, 15) -- E(m, 14) ** E(m, 7))
    ++ E(m, 5) ** (E(m, 14) ** E(m, 3) -- E(m, 2) ** E(m, 15))
    ++ E(m, 13) ** (E(m, 2) ** E(m, 7) -- E(m, 6) ** E(m, 3)))
    ++ E(m, 12) ** (E(m, 1) ** (E(m, 10) ** E(m, 7) -- E(m, 6) ** E(m, 11))
    ++ E(m, 5) ** (E(m, 2) ** E(m, 11) -- E(m, 10) ** E(m, 3))
    ++ E(m, 9) ** (E(m, 6) ** E(m, 3) -- E(m, 2) ** E(m, 7)))

Mat4_det(m) ==
    E(m, 0) ** (E(m, 5) ** (E(m, 10) ** E(m, 15) -- E(m, 14) ** E(m, 11))
    ++ E(m, 9) ** (E(m, 14) ** E(m, 7) -- E(m, 6) ** E(m, 15))
    ++ E(m, 13) ** (E(m, 6) ** E(m, 11) -- E(m, 10) ** E(m, 7)))
    ++ E(m, 4) ** (E(m, 1) ** (E(m, 14) ** E(m, 11) -- E(m, 10) ** E(m, 15))
    ++ E(m, 9) ** (E(m, 2) ** E(m, 15) -- E(m, 14) ** E(m, 3))
    ++ E(m, 13) ** (E(m, 10) ** E(m, 3) -- E(m, 2) ** E(m, 11)))
    ++ E(m, 8) ** (E(m, 1) ** (E(m, 6) ** E(m, 15) -- E(m, 14) ** E(m, 7))
    ++ E(m, 5) ** (E(m, 14) ** E(m, 3) -- E(m, 2) ** E(m, 15))
    ++ E(m, 13) ** (E(m, 2) ** E(m, 7) -- E(m, 6) ** E(m, 3)))
    ++ E(m, 12) ** (E(m, 1) ** (E(m, 10) ** E(m, 7) -- E(m, 6) ** E(m, 11))
    ++ E(m, 5) ** (E(m, 2) ** E(m, 11) -- E(m, 10) ** E(m, 3))
    ++ E(m, 9) ** (E(m, 6) ** E(m, 3) -- E(m, 2) ** E(m, 7)))

Mat4_t(m) ==
    <<
        E(m, 0), E(m, 4), E(m, 8), E(m, 12),
        E(m, 1), E(m, 5), E(m, 9), E(m, 13),
        E(m, 2), E(m, 6), E(m, 10), E(m, 14),
        E(m, 3), E(m, 7), E(m, 11), E(m, 15)
    >>

\* Mat4::invert_no_det with one index of one minor wrong.
Mat4_invert_no_det_index_slip(m) ==
    <<
        E(m, 5) ** (E(m, 10) ** E(m, 15) -- E(m, 14) ** E(m, 11))
        ++ E(m, 9) ** (E(m, 14) ** E(m, 7) -- E(m, 6) ** E(m, 15))
        ++ E(m, 13) ** (E(m, 6) ** E(m, 11) -- E(m, 10) ** E(m, 7)),
        E(m, 1) ** (E(m, 14) ** E(m, 11) -- E(m, 10) ** E(m, 15))
        ++ E(m, 9) ** (E(m, 2) ** E(m, 15) -- E(m, 14) ** E(m, 3))
        ++ E(m, 13) ** (E(m, 10) ** E(m, 3) -- E(m, 2) ** E(m, 11)),
        E(m, 1) ** (E(m, 6) ** E(m, 15) -- E(m, 14) ** E(m, 7))
        ++ E(m, 5) ** (E(m, 14) ** E(m, 3) -- E(m, 2) ** E(m, 15))
        ++ E(m, 13) ** (E(m, 2) ** E(m, 7) -- E(m, 6) ** E(m, 3)),
        E(m, 1) ** (E(m, 10) ** E(m, 7) -- E(m, 6) ** E(m, 11))
        ++ E(m, 5) ** (E(m, 2) ** E(m, 11) -- E(m, 10) ** E(m, 3))
        ++ E(m, 9) ** (E(m, 6) ** E(m, 3) -- E(m, 2) ** E(m, 7)),
        E(m, 4) ** (E(m, 14) ** E(m, 11) -- E(m, 10) ** E(m, 15))
        ++ E(m, 8) ** (E(m, 6) ** E(m, 15) -- E(m, 14) ** E(m, 7))
        ++ E(m, 12) ** (E(m, 10) ** E(m, 7) -- E(m, 6) ** E(m, 11)),
        E(m, 0) ** (E(m, 10) ** E(m, 15) -- E(m, 14) ** E(m, 11))
        ++ E(m, 8) ** (E(m, 14) ** E(m, 3) -- E(m, 2) ** E(m, 15))
        ++ E(m, 12) ** (E(m, 2) ** E(m, 11) -- E(m, 10) ** E(m, 3)),
        E(m, 0) ** (E(m, 14) ** E(m, 7) -- E(m, 6) ** E(m, 15))
        ++ E(m, 4) ** (E(m, 2) ** E(m, 15) -- E(m, 14) ** E(m, 3))
        ++ E(m, 12) ** (E(m, 6) ** E(m, 3) -- E(m, 2) ** E(m, 7)),
        E(m, 0) ** (E(m, 6) ** E(m, 11) -- E(m, 10) ** E(m, 7))
        ++ E(m, 4) ** (E(m, 10) ** E(m, 3) -- E(m, 2) ** E(m, 11))
        ++ E(m, 8) ** (E(m, 2) ** E(m, 7) -- E(m, 6) ** E(m, 3)),
        E(m, 4) ** (E(m, 9) ** E(m, 15) -- E(m, 13) ** E(m, 11))
        ++ E(m, 8) ** (E(m, 13) ** E(m, 7) -- E(m, 5) ** E(m, 15))
        ++ E(m, 12) ** (E(m, 5) ** E(m, 11) -- E(m, 9) ** E(m, 7)),
        E(m, 0) ** (E(m, 13) ** E(m, 11) -- E(m, 9) ** E(m, 15))
        ++ E(m, 8) ** (E(m, 1) ** E(m, 15) -- E(m, 13) ** E(m, 3))
        ++ E(m, 12) ** (E(m, 9) ** E(m, 3) -- E(m, 1) ** E(m, 11)),
        E(m, 0) ** (E(m, 5) ** E(m, 15) -- E(m, 13) ** E(m, 7))
        ++ E(m, 4) ** (E(m, 13) ** E(m, 3) -- E(m, 1) ** E(m, 15))
        ++ E(m, 12) ** (E(m, 1) ** E(m, 7) -- E(m, 5) ** E(m, 3)),
        E(m, 0) ** (E(m, 9) ** E(m, 7) -- E(m, 5) ** E(m, 11))
        ++ E(m, 4) ** (E(m, 1) ** E(m, 11) -- E(m, 9) ** E(m, 3))
        ++ E(m, 8) ** (E(m, 5) ** E(m, 3) -- E(m, 1) ** E(m, 11)),
        E(m, 4) ** (E(m, 13) ** E(m, 10) -- E(m, 9) ** E(m, 14))
        ++ E(m, 8) ** (E(m, 5) ** E(m, 14) -- E(m, 13) ** E(m, 6))
        ++ E(m, 12) ** (E(m, 9) ** E(m, 6) -- E(m, 5) ** E(m, 10)),
        E(m, 0) ** (E(m, 9) ** E(m, 14) -- E(m, 13) ** E(m, 10))
        ++ E(m, 8) ** (E(m, 13) ** E(m, 2) -- E(m, 1) ** E(m, 14))
        ++ E(m, 12) ** (E(m, 1) ** E(m, 10) -- E(m, 9) ** E(m, 2)),
        E(m, 0) ** (E(m, 13) ** E(m, 6) -- E(m, 5) ** E(m, 14))
        ++ E(m, 4) ** (E(m, 1) ** E(m, 14) -- E(m, 13) ** E(m, 2))
        ++ E(m, 12) ** (E(m, 5) ** E(m, 2) -- E(m, 1) ** E(m, 6)),
        E(m, 0) ** (E(m, 5) ** E(m, 10) -- E(m, 9) ** E(m, 6))
        ++ E(m, 4) ** (E(m, 9) ** E(m, 2) -- E(m, 1) ** E(m, 10))
        ++ E(m, 8) ** (E(m, 1) ** E(m, 6) -- E(m, 5) ** E(m, 2))
    >>

Mat4_invert_no_det(m) ==
    <<
        E(m, 5) ** (E(m, 10) ** E(m, 15) -- E(m, 14) ** E(m, 11))
        ++ E(m, 9) ** (E(m, 14) ** E(m, 7) -- E(m, 6) ** E(m, 15))
        ++ E(m, 13) ** (E(m, 6) ** E(m, 11) -- E(m, 10) ** E(m, 7)),
        E(m, 1) ** (E(m, 14) ** E(m, 11) -- E(m, 10) ** E(m, 15))
        ++ E(m, 9) ** (E(m, 2) ** E(m, 15) -- E(m, 14) ** E(m, 3))
        ++ E(m, 13) ** (E(m, 10) ** E(m, 3) -- E(m, 2) ** E(m, 11)),
        E(m, 1) ** (E(m, 6) ** E(m, 15) -- E(m, 14) ** E(m, 7))
        ++ E(m, 5) ** (E(m, 14) ** E(m, 3) -- E(m, 2) ** E(m, 15))
        ++ E(m, 13) ** (E(m, 2) ** E(m, 7) -- E(m, 6) ** E(m, 3)),
        E(m, 1) ** (E(m, 10) ** E(m, 7) -- E(m, 6) ** E(m, 11))
        ++ E(m, 5) ** (E(m, 2) ** E(m, 11) -- E(m, 10) ** E(m, 3))
        ++ E(m, 9) ** (E(m, 6) ** E(m, 3) -- E(m, 2) ** E(m, 7)),
        E(m, 4) ** (E(m, 14) ** E(m, 11) -- E(m, 10) ** E(m, 15))
        ++ E(m, 8) ** (E(m, 6) ** E(m, 15) -- E(m, 14) ** E(m, 7))
        ++ E(m, 12) ** (E(m, 10) ** E(m, 7) -- E(m, 6) ** E(m, 11)),
        E(m, 0) ** (E(m, 10) ** E(m, 15) -- E(m, 14) ** E(m, 11))
        ++ E(m, 8) ** (E(m, 14) ** E(m, 3) -- E(m, 2) ** E(m, 15))
        ++ E(m, 12) ** (E(m, 2) ** E(m, 11) -- E(m, 10) ** E(m, 3)),
        E(m, 0) ** (E(m, 14) ** E(m, 7) -- E(m, 6) ** E(m, 15))
        ++ E(m, 4) ** (E(m, 2) ** E(m, 15) -- E(m, 14) ** E(m, 3))
        ++ E(m, 12) ** (E(m, 6) ** E(m, 3) -- E(m, 2) ** E(m, 7)),
        E(m, 0) ** (E(m, 6) ** E(m, 11) -- E(m, 10) ** E(m, 7))
        ++ E(m, 4) ** (E(m, 10) ** E(m, 3) -- E(m, 2) ** E(m, 11))
        ++ E(m, 8) ** (E(m, 2) ** E(m, 7) -- E(m, 6) ** E(m, 3)),
        E(m, 4) ** (E(m, 9) ** E(m, 15) -- E(m, 13) ** E(m, 11))
        ++ E(m, 8) ** (E(m, 13) ** E(m, 7) -- E(m, 5) ** E(m, 15))
        ++ E(m, 12) ** (E(m, 5) ** E(m, 11) -- E(m, 9) ** E(m, 7)),
        E(m, 0) ** (E(m, 13) ** E(m, 11) -- E(m, 9) ** E(m, 15))
        ++ E(m, 8) ** (E(m, 1) ** E(m, 15) -- E(m, 13) ** E(m, 3))
        ++ E(m, 12) ** (E(m, 9) ** E(m, 3) -- E(m, 1) ** E(m, 11)),
        E(m, 0) ** (E(m, 5) ** E(m, 15) -- E(m, 13) ** E(m, 7))
        ++ E(m, 4) ** (E(m, 13) ** E(m, 3) -- E(m, 1) ** E(m, 15))
        ++ E(m, 12) ** (E(m, 1) ** E(m, 7) -- E(m, 5) ** E(m, 3)),
        E(m, 0) ** (E(m, 9) ** E(m, 7) -- E(m, 5) ** E(m, 11))
        ++ E(m, 4) ** (E(m, 1) ** E(m, 11) -- E(m, 9) ** E(m, 3))
        ++ E(m, 8) ** (E(m, 5) ** E(m, 3) -- E(m, 1) ** E(m, 7)),
        E(m, 4) ** (E(m, 13) ** E(m, 10) -- E(m, 9) ** E(m, 14))
        ++ E(m, 8) ** (E(m, 5) ** E(m, 14) -- E(m, 13) ** E(m, 6))
        ++ E(m, 12) ** (E(m, 9) ** E(m, 6) -- E(m, 5) ** E(m, 10)),
        E(m, 0) ** (E(m, 9) ** E(m, 14) -- E(m, 13) ** E(m, 10))
        ++ E(m, 8) ** (E(m, 13) ** E(m, 2) -- E(m, 1) ** E(m, 14))
        ++ E(m, 12) ** (E(m, 1) ** E(m, 10) -- E(m, 9) ** E(m, 2)),
        E(m, 0) ** (E(m, 13) ** E(m, 6) -- E(m, 5) ** E(m, 14))
        ++ E(m, 4) ** (E(m, 1) ** E(m, 14) -- E(m, 13) ** E(m, 2))
        ++ E(m, 12) ** (E(m, 5) ** E(m, 2) -- E(m, 1) ** E(m, 6)),
        E(m, 0) ** (E(m, 5) ** E(m, 10) -- E(m, 9) ** E(m, 6))
        ++ E(m, 4) ** (E(m, 9) ** E(m, 2) -- E(m, 1) ** E(m, 10))
        ++ E(m, 8) ** (E(m, 1) ** E(m, 6) -- E(m, 5) ** E(m, 2))
    >>

Mat4_add(m, rhs) ==
    <<
        E(m, 0) ++ E(rhs, 0),
        E(m, 1) ++ E(rhs, 1),
        E(m, 2) ++ E(rhs, 2),
        E(m, 3) ++ E(rhs, 3),
        E(m, 4) ++ E(rhs, 4),
        E(m, 5) ++ E(rhs, 5),
        E(m, 6) ++ E(rhs, 6),
        E(m, 7) ++ E(rhs, 7),
        E(m, 8) ++ E(rhs, 8),
        E(m, 9) ++ E(rhs, 9),
        E(m, 10) ++ E(rhs, 10),
        E(m, 11) ++ E(rhs, 11),
        E(m, 12) ++ E(rhs, 12),
        E(m, 13) ++ E(rhs, 13),
        E(m, 14) ++ E(rhs, 14),
        E(m, 15) ++ E(rhs, 15)
    >>

Mat4_sub(m, rhs) ==
    <<
        E(m, 0) -- E(rhs, 0),
        E(m, 1) -- E(rhs, 1),
        E(m, 2) -- E(rhs, 2),
        E(m, 3) -- E(rhs, 3),
        E(m, 4) -- E(rhs, 4),
        E(m, 5) -- E(rhs, 5),
        E(m, 6) -- E(rhs, 6),
        E(m, 7) -- E(rhs, 7),
        E(m, 8) -- E(rhs, 8),
        E(m, 9) -- E(rhs, 9),
        E(m, 10) -- E(rhs, 10),
        E(m, 11) -- E(rhs, 11),
        E(m, 12) -- E(rhs, 12),
        E(m, 13) -- E(rhs, 13),
        E(m, 14) -- E(rhs, 14),
        E(m, 15) -- E(rhs, 15)
    >>

Mat4_mul_scalar(m, rhs) ==
    <<
        E(m, 0) ** rhs,
        E(m, 1) ** rhs,
        E(m, 2) ** rhs,
        E(m, 3) ** rhs,
        E(m, 4) ** rhs,
        E(m, 5) ** rhs,
        E(m, 6) ** rhs,
        E(m, 7) ** rhs,
        E(m, 8) ** rhs,
        E(m, 9) ** rhs,
        E(m, 10) ** rhs,
        E(m, 11) ** rhs,
        E(m, 12) ** rhs,
        E(m, 13) ** rhs,
        E(m, 14) ** rhs,
        E(m, 15) ** rhs
    >>

Mat4_mul_vec(m, rhs) ==
    [
        x |-> E(m, 0) ** rhs.x ++ E(m, 4) ** rhs.y ++ E(m, 8) ** rhs.z ++ E(m, 12) ** rhs.w,
        y |-> E(m, 1) ** rhs.x ++ E(m, 5) ** rhs.y ++ E(m, 9) ** rhs.z ++ E(m, 13) ** rhs.w,
        z |-> E(m, 2) ** rhs.x ++ E(m, 6) ** rhs.y ++ E(m, 10) ** rhs.z ++ E(m, 14) ** rhs.w,
        w |-> E(m, 3) ** rhs.x ++ E(m, 7) ** rhs.y ++ E(m, 11) ** rhs.z ++ E(m, 15) ** rhs.w
    ]

\* Mat4 * Mat4 with one index of the third column wrong.
Mat4_mul_index_slip(m, rhs) ==
    <<
        E(m, 0) ** E(rhs, 0) ++ E(m, 4) ** E(rhs, 1) ++ E(m, 8) ** E(rhs, 2) ++ E(m, 12) ** E(rhs, 3),
        E(m, 1) ** E(rhs, 0) ++ E(m, 5) ** E(rhs, 1) ++ E(m, 9) ** E(rhs, 2) ++ E(m, 13) ** E(rhs, 3),
        E(m, 2) ** E(rhs, 0) ++ E(m, 6) ** E(rhs, 1) ++ E(m, 10) ** E(rhs, 2) ++ E(m, 14) ** E(rhs, 3),
        E(m, 3) ** E(rhs, 0) ++ E(m, 7) ** E(rhs, 1) ++ E(m, 11) ** E(rhs, 2) ++ E(m, 15) ** E(rhs, 3),
        E(m, 0) ** E(rhs, 4) ++ E(m, 4) ** E(rhs, 5) ++ E(m, 8) ** E(rhs, 6) ++ E(m, 12) ** E(rhs, 7),
        E(m, 1) ** E(rhs, 4) ++ E(m, 5) ** E(rhs, 5) ++ E(m, 9) ** E(rhs, 6) ++ E(m, 13) ** E(rhs, 7),
        E(m, 2) ** E(rhs, 4) ++ E(m, 6) ** E(rhs, 5) ++ E(m, 10) ** E(rhs, 6) ++ E(m, 14) ** E(rhs, 7),
        E(m, 3) ** E(rhs, 4) ++ E(m, 7) ** E(rhs, 5) ++ E(m, 11) ** E(rhs, 6) ++ E(m, 15) ** E(rhs, 7),
        E(m, 0) ** E(rhs, 8) ++ E(m, 4) ** E(rhs, 9) ++ E(m, 8) ** E(rhs, 10) ++ E(m, 12) ** E(rhs, 11),
        E(m, 1) ** E(rhs, 8) ++ E(m, 5) ** E(rhs, 9) ++ E(m, 9) ** E(rhs, 10) ++ E(m, 13) ** E(rhs, 11),
        E(m, 2) ** E(rhs, 8) ++ E(m, 6) ** E(rhs, 9) ++ E(m, 10) ** E(rhs, 10) ++ E(m, 14) ** E(rhs, 10),
        E(m, 3) ** E(rhs, 8) ++ E(m, 7) ** E(rhs, 9) ++ E(m, 11) ** E(rhs, 10) ++ E(m, 15) ** E(rhs, 11),
        E(m, 0) ** E(rhs, 12) ++ E(m, 4) ** E(rhs, 13) ++ E(m, 8) ** E(rhs, 14) ++ E(m, 12) ** E(rhs, 15),
        E(m, 1) ** E(rhs, 12) ++ E(m, 5) ** E(rhs, 13) ++ E(m, 9) ** E(rhs, 14) ++ E(m, 13) ** E(rhs, 15),
        E(m, 2) ** E(rhs, 12) ++ E(m, 6) ** E(rhs, 13) ++ E(m, 10) ** E(rhs, 14) ++ E(m, 14) ** E(rhs, 15),
        E(m, 3) ** E(rhs, 12) ++ E(m, 7) ** E(rhs, 13) ++ E(m, 11) ** E(rhs, 14) ++ E(m, 15) ** E(rhs, 15)
    >>

Mat4_mul(m, rhs) ==
    <<
        E(m, 0) ** E(rhs, 0) ++ E(m, 4) ** E(rhs, 1) ++ E(m, 8) ** E(rhs, 2) ++ E(m, 12) ** E(rhs, 3),
        E(m, 1) ** E(rhs, 0) ++ E(m, 5) ** E(rhs, 1) ++ E(m, 9) ** E(rhs, 2) ++ E(m, 13) ** E(rhs, 3),
        E(m, 2) ** E(rhs, 0) ++ E(m, 6) ** E(rhs, 1) ++ E(m, 10) ** E(rhs, 2) ++ E(m, 14) ** E(rhs, 3),
        E(m, 3) ** E(rhs, 0) ++ E(m, 7) ** E(rhs, 1) ++ E(m, 11) ** E(rhs, 2) ++ E(m, 15) ** E(rhs, 3),
        E(m, 0) ** E(rhs, 4) ++ E(m, 4) ** E(rhs, 5) ++ E(m, 8) ** E(rhs, 6) ++ E(m, 12) ** E(rhs, 7),
        E(m, 1) ** E(rhs, 4) ++ E(m, 5) ** E(rhs, 5) ++ E(m, 9) ** E(rhs, 6) ++ E(m, 13) ** E(rhs, 7),
        E(m, 2) ** E(rhs, 4) ++ E(m, 6) ** E(rhs, 5) ++ E(m, 10) ** E(rhs, 6) ++ E(m, 14) ** E(rhs, 7),
        E(m, 3) ** E(rhs, 4) ++ E(m, 7) ** E(rhs, 5) ++ E(m, 11) ** E(rhs, 6) ++ E(m, 15) ** E(rhs, 7),
        E(m, 0) ** E(rhs, 8) ++ E(m, 4) ** E(rhs, 9) ++ E(m, 8) ** E(rhs, 10) ++ E(m, 12) ** E(rhs, 11),
        E(m, 1) ** E(rhs, 8) ++ E(m, 5) ** E(rhs, 9) ++ E(m, 9) ** E(rhs, 10) ++ E(m, 13) ** E(rhs, 11),
        E(m, 2) ** E(rhs, 8) ++ E(m, 6) ** E(rhs, 9) ++ E(m, 10) ** E(rhs, 10) ++ E(m, 14) ** E(rhs, 11),
        E(m, 3) ** E(rhs, 8) ++ E(m, 7) ** E(rhs, 9) ++ E(m, 11) ** E(rhs, 10) ++ E(m, 15) ** E(rhs, 11),
        E(m, 0) ** E(rhs, 12) ++ E(m, 4) ** E(rhs, 13) ++ E(m, 8) ** E(rhs, 14) ++ E(m, 12) ** E(rhs, 15),
        E(m, 1) ** E(rhs, 12) ++ E(m, 5) ** E(rhs, 13) ++ E(m, 9) ** E(rhs, 14) ++ E(m, 13) ** E(rhs, 15),
        E(m, 2) ** E(rhs, 12) ++ E(m, 6) ** E(rhs, 13) ++ E(m, 10) ** E(rhs, 14) ++ E(m, 14) ** E(rhs, 15),
        E(m, 3) ** E(rhs, 12) ++ E(m, 7) ** E(rhs, 13) ++ E(m, 11) ** E(rhs, 14) ++ E(m, 15) ** E(rhs, 15)
    >>

Mat4_div(m, rhs) ==
    <<
        E(m, 0) // rhs,
        E(m, 1) // rhs,
        E(m, 2) // rhs,
        E(m, 3) // rhs,
        E(m, 4) // rhs,
        E(m, 5) // rhs,
        E(m, 6) // rhs,
        E(m, 7) // rhs,
        E(m, 8) // rhs,
        E(m, 9) // rhs,
        E(m, 10) // rhs,
        E(m, 11) // rhs,
        E(m, 12) // rhs,
        E(m, 13) // rhs,
        E(m, 14) // rhs,
        E(m, 15) // rhs
    >>

\* The divisor with the first column of self in place of its first row.
Mat4_invert_det_column_slip(m, inv) ==
    E(m, 0) ** E(inv, 0)
    ++ E(m, 1) ** E(inv, 1)
    ++ E(m, 2) ** E(inv, 2)
    ++ E(m, 3) ** E(inv, 3)

\* The divisor of Mat4::invert, its local det, for inv the matrix of
\* invert_no_det().
Mat4_invert_det(m, inv) ==
    E(m, 0) ** E(inv, 0)
    ++ E(m, 4) ** E(inv, 1)
    ++ E(m, 8) ** E(inv, 2)
    ++ E(m, 12) ** E(inv, 3)

Mat4_invert(m) ==
    LET inv == Mat4_invert_no_det(m)
        det == Mat4_invert_det(m, inv)
    IN  Mat4_div(inv, det)

----------------------------------------------------------------------------
(* Inputs *)

\* Entries drawn for the enumerated inputs lie in -MaxEntry .. MaxEntry.
MaxEntry == 2

Entries == (-MaxEntry) .. MaxEntry

Vec2Of(s) == [x |-> R(s[1]), y |-> R(s[2])]
Vec3Of(s) == [x |-> R(s[1]), y |-> R(s[2]), z |-> R(s[3])]
Vec4Of(s) == [x |-> R(s[1]), y |-> R(s[2]), z |-> R(s[3]), w |-> R(s[4])]

\* An N x N array of integers given by its rows, as the rows handed to from_rows.
Rows2(A) == <<Vec2Of(A[1]), Vec2Of(A[2])>>
Rows3(A) == <<Vec3Of(A[1]), Vec3Of(A[2]), Vec3Of(A[3])>>
Rows4(A) == <<Vec4Of(A[1]), Vec4Of(A[2]), Vec4Of(A[3]), Vec4Of(A[4])>>

\* The matrices of the library's own tests (mat/mod.rs).
TestM1_3 == <<<<0, 1, 2>>, <<3, 4, 5>>, <<6, 7, 8>>>>
TestM2_3 == <<<<3, 1, 4>>, <<1, 5, 9>>, <<2, 6, 5>>>>
TestM1_4 == <<<<1, -2, 3, 8>>, <<7, -2, 9, 0>>, <<2, 4, -1, 5>>, <<-6, 2, 0, 9>>>>
TestM2_4 == <<<<5, 0, -1, 2>>, <<0, 6, 2, 2>>, <<-3, -3, 1, 2>>, <<0, 6, 1, 5>>>>
TestPi_4 == <<<<3, 1, 4, 1>>, <<5, 9, 2, 6>>, <<5, 3, 5, 8>>, <<9, 7, 9, 3>>>>

\* A with the entry of row i, column j replaced by x.
Put(A, i, j, x) == [A EXCEPT ![i][j] = x]

\* Every 2 x 2 array over Entries.
Arrays2 == { <<<<a, b>>, <<c, d>>>> : a \in Entries, b \in Entries, c \in Entries, d \in Entries }

\* The seeds, and the seeds with up to two entries replaced by any of Entries.
Near(seeds, N) ==
    seeds \cup
    { Put(Put(A, i, j, x), k, l, y) :
        A \in seeds, i \in 1..N, j \in 1..N, k \in 1..N, l \in 1..N,
        x \in Entries, y \in Entries }

Arrays3 == Near({TestM1_3, TestM2_3}, 3)

Arrays4 == Near({TestM1_4, TestPi_4}, 4)

----------------------------------------------------------------------------
(* The determinant as Leibniz defines it: the sum over the permutations p of *)
(* sgn(p) * A[1][p[1]] * ... * A[N][p[N]].                                   *)

RECURSIVE FnSum(_, _)
FnSum(f, S) ==
    IF S = {} THEN 0
    ELSE LET x == CHOOSE y \in S : TRUE
         IN  f[x] + FnSum(f, S \ {x})

RECURSIVE SeqProd(_)
SeqProd(s) == IF s = <<>> THEN 1 ELSE Head(s) * SeqProd(Tail(s))

Inversions(p, N) == Cardinality({ ij \in (1..N) \X (1..N) : ij[1] < ij[2] /\ p[ij[1]] > p[ij[2]] })

Signature(p, N) == IF Inversions(p, N) % 2 = 0 THEN 1 ELSE -1

Leibniz(A, N) ==
    LET P == Permutations(1..N)
        term == [p \in P |-> Signature(p, N) * SeqProd([i \in 1..N |-> A[i][p[i]]])]
    IN  FnSum(term, P)

----------------------------------------------------------------------------
(* Determinants *)

Det2 ==
    /\ Idle
    /\ UNCHANGED <<poolVars, camera>>
    /\ \E A \in Arrays2 :
        /\ op' = "Mat2::det"
        /\ args' = [rows |-> A]
        /\ res' = Mat2_det(Mat2_from_rows(Rows2(A)))

Det3 ==
    /\ Idle
    /\ UNCHANGED <<poolVars, camera>>
    /\ \E A \in Arrays3 :
        /\ op' = "Mat3::det"
        /\ args' = [rows |-> A]
        /\ res' = Mat3_det(Mat3_from_rows(Rows3(A)))

Det4 ==
    /\ Idle
    /\ UNCHANGED <<poolVars, camera>>
    /\ \E A \in Arrays4 :
        /\ op' = "Mat4::det"
        /\ args' = [rows |-> A]
        /\ res' = Mat4_det(Mat4_from_rows(Rows4(A)))

DetNext == Det2 \/ Det3 \/ Det4 \/ Return

DetSpec == Init /\ [][DetNext]_vars

\* C1: det() of a 2 x 2, 3 x 3 and 4 x 4 matrix is the determinant as Leibniz
\* defines it, and the determinant of the 4 x 4 matrix of the test is 98.
DetIsDeterminant ==
    /\ op = "Mat2::det" => res = R(Leibniz(args.rows, 2))
    /\ op = "Mat3::det" => res = R(Leibniz(args.rows, 3))
    /\ op = "Mat4::det" => res = R(Leibniz(args.rows, 4))
    /\ (op = "Mat4::det" /\ args.rows = TestPi_4) => res = R(98)

\* det() has been taken of the 4 x 4 matrix of the test.
DetWitness == op = "Mat4::det" /\ args.rows = TestPi_4 /\ res = R(98)

----------------------------------------------------------------------------
(* Inverses *)

\* A without its row i and its column j.
Drop(s, i) == [k \in 1..(Len(s) - 1) |-> IF k < i THEN s[k] ELSE s[k + 1]]

Minor(A, i, j) == [k \in 1..(Len(A) - 1) |-> Drop(Drop(A, i)[k], j)]

\* The adjugate of A: the transpose of its matrix of cofactors.
Adjugate(A, N) ==
    [i \in 1..N |-> [j \in 1..N |->
        (IF (i + j) % 2 = 0 THEN 1 ELSE -1) * Leibniz(Minor(A, j, i), N - 1)]]

InvertNoDet2 ==
    /\ Idle
    /\ UNCHANGED <<poolVars, camera>>
    /\ \E A \in Arrays2 :
        /\ op' = "Mat2::invert_no_det"
        /\ args' = [rows |-> A]
        /\ res' = Mat2_invert_no_det(Mat2_from_rows(Rows2(A)))

InvertNoDet3 ==
    /\ Idle
    /\ UNCHANGED <<poolVars, camera>>
    /\ \E A \in Arrays3 :
        /\ op' = "Mat3::invert_no_det"
        /\ args' = [rows |-> A]
        /\ res' = Mat3_invert_no_det(Mat3_from_rows(Rows3(A)))

InvertNoDet4 ==
    /\ Idle
    /\ UNCHANGED <<poolVars, camera>>
    /\ \E A \in Arrays4 :
        /\ op' = "Mat4::invert_no_det"
        /\ args' = [rows |-> A]
        /\ res' = Mat4_invert_no_det(Mat4_from_rows(Rows4(A)))

Invert2 ==
    /\ Idle
    /\ UNCHANGED <<poolVars, camera>>
    /\ \E A \in Arrays2 :
        /\ op' = "Mat2::invert"
        /\ args' = [rows |-> A]
        /\ res' = Mat2_invert(Mat2_from_rows(Rows2(A)))

Invert3 ==
    /\ Idle
    /\ UNCHANGED <<poolVars, camera>>
    /\ \E A \in Arrays3 :
        /\ op' = "Mat3::invert"
        /\ args' = [rows |-> A]
        /\ res' = Mat3_invert(Mat3_from_rows(Rows3(A)))

Invert4 ==
    /\ Idle
    /\ UNCHANGED <<poolVars, camera>>
    /\ \E A \in Arrays4 :
        /\ op' = "Mat4::invert"
        /\ args' = [rows |-> A]
        /\ res' = Mat4_invert(Mat4_from_rows(Rows4(A)))

InvertNext ==
    \/ InvertNoDet2 \/ InvertNoDet3 \/ InvertNoDet4
    \/ Invert2 \/ Invert3 \/ Invert4
    \/ Return

InvertSpec == Init /\ [][InvertNext]_vars

\* C2: for every non-singular M, M * M.invert() is the identity; for every M,
\* M.invert_no_det() is the adjugate of M and M * M.invert_no_det() is
\* identity() * M.det().
InverseLaw ==
    /\ op = "Mat2::invert_no_det" =>
        LET M == Mat2_from_rows(Rows2(args.rows))
        IN  /\ res = Mat2_from_rows(Rows2(Adjugate(args.rows, 2)))
            /\ Mat2_mul(M, res) = Mat2_mul_scalar(Mat2_identity, Mat2_det(M))
    /\ op = "Mat3::invert_no_det" =>
        LET M == Mat3_from_rows(Rows3(args.rows))
        IN  /\ res = Mat3_from_rows(Rows3(Adjugate(args.rows, 3)))
            /\ Mat3_mul(M, res) = Mat3_mul_scalar(Mat3_identity, Mat3_det(M))
    /\ op = "Mat4::invert_no_det" =>
        LET M == Mat4_from_rows(Rows4(args.rows))
        IN  /\ res = Mat4_from_rows(Rows4(Adjugate(args.rows, 4)))
            /\ Mat4_mul(M, res) = Mat4_mul_scalar(Mat4_identity, Mat4_det(M))
    /\ (op = "Mat2::invert" /\ Leibniz(args.rows, 2) # 0) =>
        Mat2_mul(Mat2_from_rows(Rows2(args.rows)), res) = Mat2_identity
    /\ (op = "Mat3::invert" /\ Leibniz(args.rows, 3) # 0) =>
        Mat3_mul(Mat3_from_rows(Rows3(args.rows)), res) = Mat3_identity
    /\ (op = "Mat4::invert" /\ Leibniz(args.rows, 4) # 0) =>
        Mat4_mul(Mat4_from_rows(Rows4(args.rows)), res) = Mat4_identity

\* The non-singular 4 x 4 matrix of the test has been inverted, and its inverse
\* has entries that are no integers.
InverseWitness ==
    /\ op = "Mat4::invert"
    /\ args.rows = TestPi_4
    /\ \E i \in 1..16 : res[i][2] > 1
    /\ Mat4_mul(Mat4_from_rows(Rows4(args.rows)), res) = Mat4_identity

----------------------------------------------------------------------------
(* Layout: construction and element access *)

Arities == {2, 3, 4}

\* The operation of the matrix type of arity N.
MatAt(N, m, row, col) ==
    CASE N = 2 -> Mat2_at(m, row, col)
      [] N = 3 -> Mat3_at(m, row, col)
      [] N = 4 -> Mat4_at(m, row, col)

MatAtMut(N, row, col) ==
    CASE N = 2 -> Mat2_at_mut(row, col)
      [] N = 3 -> Mat3_at_mut(row, col)
      [] N = 4 -> Mat4_at_mut(row, col)

MatFromRows(N, rows) ==
    CASE N = 2 -> Mat2_from_rows(rows)
      [] N = 3 -> Mat3_from_rows(rows)
      [] N = 4 -> Mat4_from_rows(rows)

MatFromCols(N, cols) ==
    CASE N = 2 -> Mat2_from_cols(cols)
      [] N = 3 -> Mat3_from_cols(cols)
      [] N = 4 -> Mat4_from_cols(cols)

MatRow(N, m, row) ==
    CASE N = 2 -> Mat2_row(m, row)
      [] N = 3 -> Mat3_row(m, row)
      [] N = 4 -> Mat4_row(m, row)

MatCol(N, m, col) ==
    CASE N = 2 -> Mat2_col(m, col)
      [] N = 3 -> Mat3_col(m, col)
      [] N = 4 -> Mat4_col(m, col)

MatT(N, m) ==
    CASE N = 2 -> Mat2_t(m)
      [] N = 3 -> Mat3_t(m)
      [] N = 4 -> Mat4_t(m)

VecOf(N, s) ==
    CASE N = 2 -> Vec2Of(s)
      [] N = 3 -> Vec3Of(s)
      [] N = 4 -> Vec4Of(s)

RowsOf(N, A) == [i \in 1..N |-> VecOf(N, A[i])]

\* Component j (zero indexed) of a vector.
Component(v, j) ==
    CASE j = 0 -> v.x
      [] j = 1 -> v.y
      [] j = 2 -> v.z
      [] j = 3 -> v.w

\* The N x N array whose entries, read row by row, are k + 1, k + 2, ...: no two
\* entries are equal, so an entry tells its place.
Counting(N, k) == [i \in 1..N |-> [j \in 1..N |-> k + N * (i - 1) + j]]

\* The flat array k + 1, k + 2, ..., k + N * N.
Flat(N, k) == [i \in 1..(N * N) |-> R(k + i)]

Column(A, N, j) == [i \in 1..N |-> A[i][j]]

At ==
    /\ Idle
    /\ UNCHANGED <<poolVars, camera>>
    /\ \E N \in Arities, k \in Entries : \E row \in 0..(N - 1), col \in 0..(N - 1) :
        /\ op' = "at"
        /\ args' = [N |-> N, m |-> Flat(N, k), row |-> row, col |-> col]
        /\ res' = MatAt(N, Flat(N, k), row, col)

\* *m.at_mut(row, col) = val
AtMut ==
    /\ Idle
    /\ UNCHANGED <<poolVars, camera>>
    /\ \E N \in Arities, k \in Entries : \E row \in 0..(N - 1), col \in 0..(N - 1) :
        /\ op' = "at_mut"
        /\ args' = [N |-> N, m |-> Flat(N, k), row |-> row, col |-> col, val |-> R(k)]
        /\ res' = [Flat(N, k) EXCEPT ![MatAtMut(N, row, col) + 1] = R(k)]

FromRows ==
    /\ Idle
    /\ UNCHANGED <<poolVars, camera>>
    /\ \E N \in Arities, k \in Entries :
        /\ op' = "from_rows"
        /\ args' = [N |-> N, rows |-> Counting(N, k)]
        /\ res' = MatFromRows(N, RowsOf(N, Counting(N, k)))

FromCols ==
    /\ Idle
    /\ UNCHANGED <<poolVars, camera>>
    /\ \E N \in Arities, k \in Entries :
        /\ op' = "from_cols"
        /\ args' = [N |-> N, cols |-> Counting(N, k)]
        /\ res' = MatFromCols(N, RowsOf(N, Counting(N, k)))

Row ==
    /\ Idle
    /\ UNCHANGED <<poolVars, camera>>
    /\ \E N \in Arities, k \in Entries : \E row \in 0..(N - 1) :
        /\ op' = "row"
        /\ args' = [N |-> N, rows |-> Counting(N, k), row |-> row]
        /\ res' = MatRow(N, MatFromRows(N, RowsOf(N, Counting(N, k))), row)

Col ==
    /\ Idle
    /\ UNCHANGED <<poolVars, camera>>
    /\ \E N \in Arities, k \in Entries : \E col \in 0..(N - 1) :
        /\ op' = "col"
        /\ args' = [N |-> N, rows |-> Counting(N, k), col |-> col]
        /\ res' = MatCol(N, MatFromRows(N, RowsOf(N, Counting(N, k))), col)

LayoutNext == At \/ AtMut \/ FromRows \/ FromCols \/ Row \/ Col \/ Return

LayoutSpec == Init /\ [][LayoutNext]_vars

\* C3: at(row, col) and at_mut(row, col) address the flat element col * N + row;
\* from_rows(rows).at(i, j) is component j of rows[i]; from_cols(cols).at(i, j) is
\* component i of cols[j]; row(i) and col(j) are row i and column j; and
\* from_rows(r) is from_cols(r).t().
ColumnMajorLayout ==
    /\ op = "at" => res = args.m[args.col * args.N + args.row + 1]
    /\ op = "at_mut" =>
        /\ MatAt(args.N, res, args.row, args.col) = args.val
        /\ \A i \in 0..(args.N * args.N - 1) :
            E(res, i) = IF i = args.col * args.N + args.row THEN args.val ELSE E(args.m, i)
    /\ op = "from_rows" =>
        /\ \A i \in 0..(args.N - 1), j \in 0..(args.N - 1) :
            MatAt(args.N, res, i, j) = Component(VecOf(args.N, args.rows[i + 1]), j)
        /\ res = MatT(args.N, MatFromCols(args.N, RowsOf(args.N, args.rows)))
    /\ op = "from_cols" =>
        \A i \in 0..(args.N - 1), j \in 0..(args.N - 1) :
            MatAt(args.N, res, i, j) = Component(VecOf(args.N, args.cols[j + 1]), i)
    /\ op = "row" => res = VecOf(args.N, args.rows[args.row + 1])
    /\ op = "col" => res = VecOf(args.N, Column(args.rows, args.N, args.col + 1))

\* at(1, 2) has been read of the 3 x 3 matrix with the flat array 1, 2, ..., 9:
\* it is the flat element 2 * 3 + 1 = 7 (zero indexed), which holds 8.
LayoutWitness ==
    /\ op = "at"
    /\ args.N = 3 /\ args.row = 1 /\ args.col = 2
    /\ args.m = Flat(3, 0)
    /\ res = R(8)

----------------------------------------------------------------------------
(* Products *)

MatMul(N, a, b) ==
    CASE N = 2 -> Mat2_mul(a, b)
      [] N = 3 -> Mat3_mul(a, b)
      [] N = 4 -> Mat4_mul(a, b)

MatMulVec(N, m, v) ==
    CASE N = 2 -> Mat2_mul_vec(m, v)
      [] N = 3 -> Mat3_mul_vec(m, v)
      [] N = 4 -> Mat4_mul_vec(m, v)

TestM1_2 == <<<<0, 1>>, <<2, 3>>>>
TestM2_2 == <<<<3, 1>>, <<4, 5>>>>
TestM1xM2_4 == <<<<-4, 27, 6, 44>>, <<8, -39, -2, 28>>, <<13, 57, 10, 35>>, <<-30, 66, 19, 37>>>>

Seeds(N) ==
    CASE N = 2 -> {TestM1_2, TestM2_2}
      [] N = 3 -> {TestM1_3, TestM2_3}
      [] N = 4 -> {TestM1_4, TestM2_4}

\* The seeds with up to one entry replaced by any of Entries.
OneOff(N) ==
    Seeds(N) \cup { Put(A, i, j, x) : A \in Seeds(N), i \in 1..N, j \in 1..N, x \in Entries }

\* Every vector of N components that are each -MaxEntry, 0 or 1 (the basis
\* vectors among them).
Vectors(N) == { VecOf(N, s) : s \in [1..N -> {-MaxEntry, 0, 1}] }

MatOf(N, A) == MatFromRows(N, RowsOf(N, A))

Mul ==
    /\ Idle
    /\ UNCHANGED <<poolVars, camera>>
    /\ \E N \in Arities : \E A \in OneOff(N), B \in Seeds(N) :
        /\ op' = "mul"
        /\ args' = [N |-> N, a |-> A, b |-> B]
        /\ res' = MatMul(N, MatOf(N, A), MatOf(N, B))

MulVec ==
    /\ Idle
    /\ UNCHANGED <<poolVars, camera>>
    /\ \E N \in Arities : \E A \in Seeds(N), v \in Vectors(N) :
        /\ op' = "mul_vec"
        /\ args' = [N |-> N, m |-> A, v |-> v]
        /\ res' = MatMulVec(N, MatOf(N, A), v)

ProductNext == Mul \/ MulVec \/ Return

ProductSpec == Init /\ [][ProductNext]_vars

\* C4: (A * B) * v is A * (B * v), for matrices A, B and a vector v of the same
\* arity 2, 3 or 4.
MulAssociative ==
    /\ op = "mul" =>
        \A v \in Vectors(args.N) :
            MatMulVec(args.N, res, v)
                = MatMulVec(args.N, MatOf(args.N, args.a),
                            MatMulVec(args.N, MatOf(args.N, args.b), v))
    /\ op = "mul_vec" =>
        \A A \in Seeds(args.N) :
            MatMulVec(args.N, MatMul(args.N, MatOf(args.N, A), MatOf(args.N, args.m)), args.v)
                = MatMulVec(args.N, MatOf(args.N, A), res)

\* The two 4 x 4 matrices of the test have been multiplied, with the product
\* the test expects.
MulWitness ==
    /\ op = "mul"
    /\ args.N = 4 /\ args.a = TestM1_4 /\ args.b = TestM2_4
    /\ res = MatOf(4, TestM1xM2_4)

----------------------------------------------------------------------------
(* Floating point functions of the standard library *)

\* The greatest k in lo..hi with k * k <= n.
RECURSIVE Root(_, _, _)
Root(n, lo, hi) ==
    IF lo = hi THEN lo
    ELSE LET mid == (lo + hi + 1) \div 2
         IN  IF mid * mid <= n THEN Root(n, mid, hi) ELSE Root(n, lo, mid - 1)

\* The integer part of the square root of n >= 0.
ISqrt(n) == Root(n, 0, IF n < 46340 THEN n ELSE 46340)

IsSquare(n) == n >= 0 /\ ISqrt(n) * ISqrt(n) = n

\* sqrt().  The scalars of the model are rationals, so the root is taken of
\* squares of rationals only: every input below is chosen to have rational
\* lengths, and sqrt() of anything else has no value in the model.
Sqrt(a) ==
    IF a[2] = 0 THEN (IF a[1] = 1 THEN a ELSE NaN)
    ELSE IF a[1] < 0 THEN NaN
    ELSE LET n == ISqrt(a[1])
             d == ISqrt(a[2])
         IN  IF n * n = a[1] /\ d * d = a[2] THEN <<n, d>>
             ELSE CHOOSE r \in {} : TRUE

\* hypot()
Hypot(x, y) == Sqrt((x ** x) ++ (y ** y))

\* An angle is the point of the unit circle it turns (1, 0) to: cos() and
\* sin() read the point, atan2() makes it.  Two angles with the same point
\* differ by whole turns.  An angle that is halved carries its half.
AngleOf(c, s) == [cos |-> c, sin |-> s]

Cos(a) == a.cos

Sin(a) == a.sin

\* angle * T::ONE_HALF
Half(a) == AngleOf(a.half.cos, a.half.sin)

\* The angle whose half turns (1, 0) to the point (hc, hs) of the unit circle.
Twice(hc, hs) ==
    [cos |-> (hc ** hc) -- (hs ** hs), sin |-> (TWO ** hc) ** hs,
     half |-> AngleOf(hc, hs)]

\* T::zero() as an angle.
ZeroAngle == AngleOf(ONE, ZERO)

\* atan2(y, x): the angle of the point (x, y), in (-pi, pi]; atan2(0, 0) is 0.
Atan2(y, x) ==
    LET h == Hypot(x, y)
    IN  IF h = ZERO THEN ZeroAngle ELSE AngleOf(x // h, y // h)

\* The same angle up to whole turns.
SameAngle(a, b) == Cos(a) = Cos(b) /\ Sin(a) = Sin(b)

----------------------------------------------------------------------------
(* Vec3 (vec3.rs, and the operations macro_impl_vec derives) *)

Vec3_new(x, y, z) == [x |-> x, y |-> y, z |-> z]

Vec3_ZERO == Vec3_new(ZERO, ZERO, ZERO)
Vec3_X == Vec3_new(ONE, ZERO, ZERO)
Vec3_Y == Vec3_new(ZERO, ONE, ZERO)
Vec3_Z == Vec3_new(ZERO, ZERO, ONE)

Vec3_len2(v) == ((v.x ** v.x) ++ (v.y ** v.y)) ++ (v.z ** v.z)

Vec3_dot(vec1, vec2) ==
    ((vec1.x ** vec2.x) ++ (vec1.y ** vec2.y)) ++ (vec1.z ** vec2.z)

Vec3_len(v) == Sqrt(Vec3_len2(v))

Vec3_add(v, rhs) == [x |-> v.x ++ rhs.x, y |-> v.y ++ rhs.y, z |-> v.z ++ rhs.z]

Vec3_sub(v, rhs) == [x |-> v.x -- rhs.x, y |-> v.y -- rhs.y, z |-> v.z -- rhs.z]

Vec3_mul_scalar(v, rhs) == [x |-> v.x ** rhs, y |-> v.y ** rhs, z |-> v.z ** rhs]

Vec3_div_scalar(v, rhs) == [x |-> v.x // rhs, y |-> v.y // rhs, z |-> v.z // rhs]

Vec3_neg(v) == [x |-> Neg(v.x), y |-> Neg(v.y), z |-> Neg(v.z)]

Vec3_normalized(v) == Vec3_div_scalar(v, Vec3_len(v))

\* cross() with the two terms of its y component exchanged.
Vec3_cross_sign_slip(vec1, vec2) ==
    [x |-> (vec1.y ** vec2.z) -- (vec1.z ** vec2.y),
     y |-> (vec1.x ** vec2.z) -- (vec1.z ** vec2.x),
     z |-> (vec1.x ** vec2.y) -- (vec1.y ** vec2.x)]

\* cross() with vec2.x for vec2.y in its x component.
Vec3_cross_term_slip(vec1, vec2) ==
    [x |-> (vec1.y ** vec2.z) -- (vec1.z ** vec2.x),
     y |-> (vec1.z ** vec2.x) -- (vec1.x ** vec2.z),
     z |-> (vec1.x ** vec2.y) -- (vec1.y ** vec2.x)]

Vec3_cross(vec1, vec2) ==
    [x |-> (vec1.y ** vec2.z) -- (vec1.z ** vec2.y),
     y |-> (vec1.z ** vec2.x) -- (vec1.x ** vec2.z),
     z |-> (vec1.x ** vec2.y) -- (vec1.y ** vec2.x)]

----------------------------------------------------------------------------
(* Rotation matrices (mat3.rs) *)

Mat3_yaw(phi) ==
    LET phi_cos == Cos(phi)
        phi_sin == Sin(phi)
    IN  << phi_cos, phi_sin, ZERO,
           Neg(phi_sin), phi_cos, ZERO,
           ZERO, ZERO, ONE >>

Mat3_pitch(theta) ==
    LET theta_cos == Cos(theta)
        theta_sin == Sin(theta)
    IN  << theta_cos, ZERO, Neg(theta_sin),
           ZERO, ONE, ZERO,
           theta_sin, ZERO, theta_cos >>

Mat3_roll(psi) ==
    LET psi_cos == Cos(psi)
        psi_sin == Sin(psi)
    IN  << ONE, ZERO, ZERO,
           ZERO, psi_cos, psi_sin,
           ZERO, Neg(psi_sin), psi_cos >>

\* yaw_pitch_roll() with + for - in the first entry of its second column.
Mat3_yaw_pitch_roll_sign_slip(yaw, pitch, roll) ==
    LET yaw_cos == Cos(yaw)
        yaw_sin == Sin(yaw)
        pitch_cos == Cos(pitch)
        pitch_sin == Sin(pitch)
        roll_cos == Cos(roll)
        roll_sin == Sin(roll)
    IN  << yaw_cos ** pitch_cos,
           yaw_sin ** pitch_cos,
           Neg(pitch_sin),
           ((yaw_cos ** pitch_sin) ** roll_sin) ++ (yaw_sin ** roll_cos),
           ((yaw_sin ** pitch_sin) ** roll_sin) ++ (yaw_cos ** roll_cos),
           pitch_cos ** roll_sin,
           ((yaw_cos ** pitch_sin) ** roll_cos) ++ (yaw_sin ** roll_sin),
           ((yaw_sin ** pitch_sin) ** roll_cos) -- (yaw_cos ** roll_sin),
           pitch_cos ** roll_cos >>

Mat3_yaw_pitch_roll(yaw, pitch, roll) ==
    LET yaw_cos == Cos(yaw)
        yaw_sin == Sin(yaw)
        pitch_cos == Cos(pitch)
        pitch_sin == Sin(pitch)
        roll_cos == Cos(roll)
        roll_sin == Sin(roll)
    IN  << yaw_cos ** pitch_cos,
           yaw_sin ** pitch_cos,
           Neg(pitch_sin),
           ((yaw_cos ** pitch_sin) ** roll_sin) -- (yaw_sin ** roll_cos),
           ((yaw_sin ** pitch_sin) ** roll_sin) ++ (yaw_cos ** roll_cos),
           pitch_cos ** roll_sin,
           ((yaw_cos ** pitch_sin) ** roll_cos) ++ (yaw_sin ** roll_sin),
           ((yaw_sin ** pitch_sin) ** roll_cos) -- (yaw_cos ** roll_sin),
           pitch_cos ** roll_cos >>

\* 1.0e-6.into()
SingularBelow == <<1, 1000000>>

\* get_euler_angles() without the negation in the roll of the singular branch.
Mat3_get_euler_angles_sign_slip(m) ==
    LET sy == Hypot(Mat3_at(m, 0, 0), Mat3_at(m, 1, 0))
        singular == RLt(sy, SingularBelow)
    IN  IF ~singular
        THEN << Atan2(Mat3_at(m, 1, 0), Mat3_at(m, 0, 0)),
                Atan2(Neg(Mat3_at(m, 2, 0)), sy),
                Atan2(Mat3_at(m, 2, 1), Mat3_at(m, 2, 2)) >>
        ELSE << ZeroAngle,
                Atan2(Neg(Mat3_at(m, 2, 0)), sy),
                Atan2(Mat3_at(m, 1, 2), Mat3_at(m, 1, 1)) >>

Mat3_get_euler_angles(m) ==
    LET sy == Hypot(Mat3_at(m, 0, 0), Mat3_at(m, 1, 0))
        singular == RLt(sy, SingularBelow)
    IN  IF ~singular
        THEN << Atan2(Mat3_at(m, 1, 0), Mat3_at(m, 0, 0)),
                Atan2(Neg(Mat3_at(m, 2, 0)), sy),
                Atan2(Mat3_at(m, 2, 1), Mat3_at(m, 2, 2)) >>
        ELSE << ZeroAngle,
                Atan2(Neg(Mat3_at(m, 2, 0)), sy),
                Atan2(Neg(Mat3_at(m, 1, 2)), Mat3_at(m, 1, 1)) >>

\* from_axis_angle() with the sine terms of the first column exchanged in sign.
Mat3_from_axis_angle_sign_slip(axis, angle) ==
    LET cos == Cos(angle)
        sin == Sin(angle)
        one_minus_cos == ONE -- cos
        n == Vec3_normalized(axis)
        x == n.x
        y == n.y
        z == n.z
        xx == x ** x
        xy == x ** y
        xz == x ** z
        yy == y ** y
        yz == y ** z
        zz == z ** z
    IN  << (one_minus_cos ** xx) ++ cos,
           (one_minus_cos ** xy) -- (sin ** z),
           (one_minus_cos ** xz) ++ (sin ** y),
           (one_minus_cos ** xy) -- (sin ** z),
           (one_minus_cos ** yy) ++ cos,
           (one_minus_cos ** yz) ++ (sin ** x),
           (one_minus_cos ** xz) ++ (sin ** y),
           (one_minus_cos ** yz) -- (sin ** x),
           (one_minus_cos ** zz) ++ cos >>

Mat3_from_axis_angle(axis, angle) ==
    LET cos == Cos(angle)
        sin == Sin(angle)
        one_minus_cos == ONE -- cos
        n == Vec3_normalized(axis)
        x == n.x
        y == n.y
        z == n.z
        xx == x ** x
        xy == x ** y
        xz == x ** z
        yy == y ** y
        yz == y ** z
        zz == z ** z
    IN  << (one_minus_cos ** xx) ++ cos,
           (one_minus_cos ** xy) ++ (sin ** z),
           (one_minus_cos ** xz) -- (sin ** y),
           (one_minus_cos ** xy) -- (sin ** z),
           (one_minus_cos ** yy) ++ cos,
           (one_minus_cos ** yz) ++ (sin ** x),
           (one_minus_cos ** xz) ++ (sin ** y),
           (one_minus_cos ** yz) -- (sin ** x),
           (one_minus_cos ** zz) ++ cos >>

Mat3_from_quat(quat) ==
    LET s == quat.scalar
        x == quat.vector.x
        y == quat.vector.y
        z == quat.vector.z
        sx == s ** x
        sy == s ** y
        sz == s ** z
        xx == x ** x
        xy == x ** y
        xz == x ** z
        yy == y ** y
        yz == y ** z
        zz == z ** z
        one == ONE
        two == one ++ one
    IN  << (one -- (two ** yy)) -- (two ** zz),
           (two ** xy) ++ (two ** sz),
           (two ** xz) -- (two ** sy),
           (two ** xy) -- (two ** sz),
           (one -- (two ** xx)) -- (two ** zz),
           (two ** yz) ++ (two ** sx),
           (two ** xz) ++ (two ** sy),
           (two ** yz) -- (two ** sx),
           (one -- (two ** xx)) -- (two ** yy) >>

\* norm(), squared: the sum of the squares of the entries.
Mat3_norm2(m) ==
    LET sq(i) == E(m, i) ** E(m, i)
    IN  (((((((sq(0) ++ sq(1)) ++ sq(2)) ++ sq(3)) ++ sq(4)) ++ sq(5)) ++ sq(6)) ++ sq(7)) ++ sq(8)

----------------------------------------------------------------------------
(* Quaternions (quat.rs) *)

\* exp(), ln(), cos(), sin() and acos() of a scalar.  The quaternion
\* exponential and logarithm take them of lengths and of ratios of lengths:
\* here they are given, to three decimals, on the integers and the ratios the
\* inputs below reach, with the IEEE values at the edges (ln(0) = -Inf, a NaN
\* argument gives NaN).  They have no value elsewhere.
Exp(x) ==
    CASE IsNaN(x) -> NaN
      [] x = R(-3) -> <<50, 1000>>
      [] x = R(-2) -> <<135, 1000>>
      [] x = R(-1) -> <<368, 1000>>
      [] x = R(0) -> ONE
      [] x = R(1) -> <<2718, 1000>>
      [] x = R(2) -> <<7389, 1000>>
      [] x = R(3) -> <<20086, 1000>>

Ln(x) ==
    CASE IsNaN(x) -> NaN
      [] x = R(0) -> <<-1, 0>>
      [] x = R(1) -> ZERO
      [] x = R(2) -> <<693, 1000>>
      [] x = R(3) -> <<1099, 1000>>

RadCos(x) ==
    CASE IsNaN(x) -> NaN
      [] x = R(0) -> ONE
      [] x = R(1) -> <<540, 1000>>
      [] x = R(2) -> <<-416, 1000>>
      [] x = R(3) -> <<-990, 1000>>

RadSin(x) ==
    CASE IsNaN(x) -> NaN
      [] x = R(0) -> ZERO
      [] x = R(1) -> <<841, 1000>>
      [] x = R(2) -> <<909, 1000>>
      [] x = R(3) -> <<141, 1000>>

Acos(x) ==
    CASE IsNaN(x) -> NaN
      [] x = R(1) -> ZERO
      [] x = R(0) -> <<1571, 1000>>
      [] x = R(-1) -> <<3142, 1000>>

\* T::epsilon(), of f32: 2^-23.
Epsilon == <<1, 8388608>>

Quaternion_new(scalar, vector) == [scalar |-> scalar, vector |-> vector]

Quaternion_from_axis_angle(axis, angle) ==
    LET half_angle == Half(angle)
        cos == Cos(half_angle)
        sin == Sin(half_angle)
    IN  Quaternion_new(cos, Vec3_mul_scalar(Vec3_normalized(axis), sin))

Quaternion_len2(q) == (q.scalar ** q.scalar) ++ Vec3_len2(q.vector)

Quaternion_conjugate(q) == [scalar |-> q.scalar, vector |-> Vec3_neg(q.vector)]

Quaternion_mul(q, rhs) ==
    [scalar |-> (q.scalar ** rhs.scalar) -- Vec3_dot(q.vector, rhs.vector),
     vector |-> Vec3_add(Vec3_add(Vec3_mul_scalar(q.vector, rhs.scalar),
                                  Vec3_mul_scalar(rhs.vector, q.scalar)),
                         Vec3_cross(q.vector, rhs.vector))]

Quaternion_rotate(q, point) ==
    LET p == [scalar |-> ZERO, vector |-> point]
    IN  Quaternion_mul(Quaternion_mul(q, p), Quaternion_conjugate(q)).vector

Quaternion_len(q) == Sqrt(Quaternion_len2(q))

Quaternion_exp(q) ==
    LET len_v == Vec3_len(q.vector)
        exp_s == Exp(q.scalar)
    IN  IF RLt(len_v, Epsilon)
        THEN Quaternion_new(Exp(q.scalar), Vec3_ZERO)
        ELSE Quaternion_new(
                 exp_s ** RadCos(len_v),
                 Vec3_div_scalar(
                     Vec3_mul_scalar(Vec3_mul_scalar(q.vector, exp_s), RadSin(len_v)),
                     len_v))

Quaternion_ln(q) ==
    LET len_q == Quaternion_len(q)
        len_v == Vec3_len(q.vector)
        ln_len == Ln(len_q)
    IN  Quaternion_new(
            ln_len,
            Vec3_div_scalar(Vec3_mul_scalar(q.vector, Acos(q.scalar // len_q)), len_v))

Quaternion_get_axis_angle(q) ==
    LET cos == q.scalar
        sin == Vec3_len(q.vector)
    IN  <<Vec3_div_scalar(q.vector, sin), Atan2(sin, cos)>>

----------------------------------------------------------------------------
(* Euler angles *)

MaxTan == 2

\* The points of the unit circle with rational coordinates
\* ((q^2 - p^2) / (q^2 + p^2), 2pq / (q^2 + p^2)), for p and q up to MaxTan:
\* the four points on the axes among them.
UnitPoints ==
    { <<Norm(q * q - p * p, q * q + p * p), Norm(2 * p * q, q * q + p * p)>> :
        <<p, q>> \in ((-MaxTan..MaxTan) \X (-MaxTan..MaxTan)) \ {<<0, 0>>} }

\* The angles of those points: 0, the right angles and the half turn, and
\* angles between them.
Angles == { AngleOf(P[1], P[2]) : P \in UnitPoints }

YawPitchRoll ==
    /\ Idle
    /\ UNCHANGED <<poolVars, camera>>
    /\ \E yaw \in Angles, pitch \in Angles, roll \in Angles :
        /\ op' = "Mat3::yaw_pitch_roll"
        /\ args' = [yaw |-> yaw, pitch |-> pitch, roll |-> roll]
        /\ res' = Mat3_yaw_pitch_roll(yaw, pitch, roll)

\* get_euler_angles() of the rotation matrix of yaw, pitch and roll.
GetEulerAngles ==
    /\ Idle
    /\ UNCHANGED <<poolVars, camera>>
    /\ \E yaw \in Angles, pitch \in Angles, roll \in Angles :
        /\ op' = "Mat3::get_euler_angles"
        /\ args' = [yaw |-> yaw, pitch |-> pitch, roll |-> roll,
                    m |-> Mat3_yaw_pitch_roll(yaw, pitch, roll)]
        /\ res' = Mat3_get_euler_angles(Mat3_yaw_pitch_roll(yaw, pitch, roll))

EulerNext == YawPitchRoll \/ GetEulerAngles \/ Return

EulerSpec == Init /\ [][EulerNext]_vars

\* C5: yaw_pitch_roll(y, p, r) is, entry by entry, the product
\* yaw(y) * pitch(p) * roll(r).
YawPitchRollIsProduct ==
    op = "Mat3::yaw_pitch_roll" =>
        res = Mat3_mul(Mat3_mul(Mat3_yaw(args.yaw), Mat3_pitch(args.pitch)),
                       Mat3_roll(args.roll))

\* yaw_pitch_roll() has been called with three angles that are no multiples of
\* a right angle: no entry of the product is 0 but those the three factors
\* share.
YawPitchRollWitness ==
    /\ op = "Mat3::yaw_pitch_roll"
    /\ args.yaw = AngleOf(<<3, 5>>, <<4, 5>>)
    /\ args.pitch = AngleOf(<<-3, 5>>, <<4, 5>>)
    /\ args.roll = AngleOf(<<3, 5>>, <<-4, 5>>)
    /\ E(res, 3) = <<-108, 125>>

\* The tolerance of the round trip: 1.0e-3.
Tolerance == <<1, 1000>>

\* get_euler_angles() is in its gimbal-lock branch on m.
GimbalLock(m) == RLt(Hypot(Mat3_at(m, 0, 0), Mat3_at(m, 1, 0)), SingularBelow)

\* C10: the matrix yaw_pitch_roll() builds from the angles get_euler_angles()
\* returns for a rotation matrix M is M to within 1.0e-3 in norm; in the
\* gimbal-lock branch the yaw returned is 0.
EulerRoundTrip ==
    op = "Mat3::get_euler_angles" =>
        LET M2 == Mat3_yaw_pitch_roll(res[1], res[2], res[3])
        IN  /\ RLt(Mat3_norm2(Mat3_sub(args.m, M2)), Tolerance ** Tolerance)
            /\ GimbalLock(args.m) => res[1] = ZeroAngle

\* get_euler_angles() has been called in gimbal lock on a matrix built with a
\* yaw that is not 0: the yaw returned is 0, the roll returned is not the roll
\* the matrix was built with, and the matrix is reconstructed.
EulerWitness ==
    /\ op = "Mat3::get_euler_angles"
    /\ GimbalLock(args.m)
    /\ args.yaw = AngleOf(<<3, 5>>, <<4, 5>>)
    /\ res[1] = ZeroAngle
    /\ ~SameAngle(res[3], args.roll)
    /\ Mat3_yaw_pitch_roll(res[1], res[2], res[3]) = args.m

----------------------------------------------------------------------------
(* Axis and angle *)

MaxAxis == 2

\* The axes: the vectors of integers up to MaxAxis, not zero, whose length
\* is an integer ((1, 0, 0), (0, -2, 0), (1, 2, 2), ...).
Axes ==
    { Vec3Of(s) : s \in { t \in [1..3 -> -MaxAxis..MaxAxis] :
        /\ t # <<0, 0, 0>>
        /\ IsSquare(t[1] * t[1] + t[2] * t[2] + t[3] * t[3]) } }

\* The axes of length 1.
UnitAxes == { Vec3_normalized(a) : a \in Axes }

\* The angles whose half is an angle of Angles: they run over two turns.
HalvedAngles == { Twice(P[1], P[2]) : P \in UnitPoints }

\* The angle is in (0, pi): its half is in (0, pi / 2).
InOpenHalfTurn(a) == RLt(ZERO, a.half.cos) /\ RLt(ZERO, a.half.sin)

FromAxisAngle ==
    /\ Idle
    /\ UNCHANGED <<poolVars, camera>>
    /\ \E axis \in Axes, angle \in HalvedAngles :
        /\ op' = "Quaternion::from_axis_angle"
        /\ args' = [axis |-> axis, angle |-> angle]
        /\ res' = Quaternion_from_axis_angle(axis, angle)

\* get_axis_angle() of the unit quaternion from_axis_angle() makes of a unit
\* axis and an angle.
GetAxisAngle ==
    /\ Idle
    /\ UNCHANGED <<poolVars, camera>>
    /\ \E axis \in UnitAxes, angle \in HalvedAngles :
        /\ op' = "Quaternion::get_axis_angle"
        /\ args' = [axis |-> axis, angle |-> angle,
                    q |-> Quaternion_from_axis_angle(axis, angle)]
        /\ res' = Quaternion_get_axis_angle(Quaternion_from_axis_angle(axis, angle))

AxisAngleNext == GetAxisAngle \/ FromAxisAngle \/ Return

AxisAngleSpec == Init /\ [][AxisAngleNext]_vars

\* C6: for a unit axis a and an angle t in (0, pi),
\* from_axis_angle(a, t).get_axis_angle() is (a, t).
AxisAngleRoundTrip ==
    (op = "Quaternion::get_axis_angle" /\ InOpenHalfTurn(args.angle)) =>
        /\ res[1] = args.axis
        /\ SameAngle(res[2], args.angle)

----------------------------------------------------------------------------
(* Exponential and logarithm *)

\* The quaternions with a scalar part of Entries and a vector part that is
\* zero or an axis.
ExpInputs ==
    { Quaternion_new(R(s), v) : s \in Entries, v \in Axes \cup {Vec3_ZERO} }

\* Those of them whose length is rational.
LnInputs ==
    { q \in ExpInputs :
        LET l == Quaternion_len2(q) IN IsSquare(l[1]) /\ IsSquare(l[2]) }

QuaternionExp ==
    /\ Idle
    /\ UNCHANGED <<poolVars, camera>>
    /\ \E q \in ExpInputs :
        /\ op' = "Quaternion::exp"
        /\ args' = [q |-> q]
        /\ res' = Quaternion_exp(q)

QuaternionLn ==
    /\ Idle
    /\ UNCHANGED <<poolVars, camera>>
    /\ \E q \in LnInputs :
        /\ op' = "Quaternion::ln"
        /\ args' = [q |-> q]
        /\ res' = Quaternion_ln(q)

ExpLnNext == QuaternionExp \/ QuaternionLn \/ Return

ExpLnSpec == Init /\ [][ExpLnNext]_vars

\* Every part of the quaternion is a finite number.
QuaternionFinite(q) ==
    /\ IsFinite(q.scalar)
    /\ IsFinite(q.vector.x) /\ IsFinite(q.vector.y) /\ IsFinite(q.vector.z)

\* C7: exp() and ln() take a small-angle branch when the length of the vector
\* part is below epsilon: of a quaternion with a zero vector part (and, for
\* ln(), a scalar part that is not zero) each gives a finite result with no
\* NaN in it, whose vector part is zero.
ExpLnFiniteAtZeroVector ==
    /\ (op = "Quaternion::exp" /\ args.q.vector = Vec3_ZERO) =>
        QuaternionFinite(res) /\ res.vector = Vec3_ZERO
    /\ (op = "Quaternion::ln" /\ args.q.vector = Vec3_ZERO /\ args.q.scalar # ZERO) =>
        QuaternionFinite(res) /\ res.vector = Vec3_ZERO

----------------------------------------------------------------------------
(* The quaternion product *)

\* The quaternions with parts that are each -MaxEntry, 0 or 1: 1, i, j and k
\* among them.
Quats ==
    { Quaternion_new(R(s[1]), Vec3Of(<<s[2], s[3], s[4]>>)) :
        s \in [1..4 -> {-MaxEntry, 0, 1}] }

QuatI == Quaternion_new(ZERO, Vec3_X)
QuatJ == Quaternion_new(ZERO, Vec3_Y)
QuatK == Quaternion_new(ZERO, Vec3_Z)

\* Hamilton's product of a1 + b1 i + c1 j + d1 k and a2 + b2 i + c2 j + d2 k,
\* from i^2 = j^2 = k^2 = ijk = -1, for quaternions with integer parts.
Hamilton(p, q) ==
    LET a1 == p.scalar[1]  b1 == p.vector.x[1]  c1 == p.vector.y[1]  d1 == p.vector.z[1]
        a2 == q.scalar[1]  b2 == q.vector.x[1]  c2 == q.vector.y[1]  d2 == q.vector.z[1]
    IN  Quaternion_new(
            R(a1 * a2 - b1 * b2 - c1 * c2 - d1 * d2),
            Vec3_new(R(a1 * b2 + b1 * a2 + c1 * d2 - d1 * c2),
                     R(a1 * c2 - b1 * d2 + c1 * a2 + d1 * b2),
                     R(a1 * d2 + b1 * c2 - c1 * b2 + d1 * a2)))

QuaternionMul ==
    /\ Idle
    /\ UNCHANGED <<poolVars, camera>>
    /\ \E q \in Quats, rhs \in Quats :
        /\ op' = "Quaternion::mul"
        /\ args' = [q |-> q, rhs |-> rhs]
        /\ res' = Quaternion_mul(q, rhs)

HamiltonNext == QuaternionMul \/ Return

HamiltonSpec == Init /\ [][HamiltonNext]_vars

\* C8: q * rhs is Hamilton's product; the product is associative; and it is
\* not commutative: i * j is k and j * i is -k.
MulIsHamilton ==
    op = "Quaternion::mul" =>
        /\ res = Hamilton(args.q, args.rhs)
        /\ \A q3 \in Quats :
            Quaternion_mul(res, q3) = Quaternion_mul(args.q, Quaternion_mul(args.rhs, q3))
        /\ (args.q = QuatI /\ args.rhs = QuatJ) =>
            res = QuatK /\ res # Quaternion_mul(args.rhs, args.q)
        /\ (args.q = QuatJ /\ args.rhs = QuatI) =>
            res = Quaternion_new(ZERO, Vec3_neg(Vec3_Z))

\* i has been multiplied by j: the product is k, and it is not j * i.
MulWitnessIJ ==
    /\ op = "Quaternion::mul"
    /\ args.q = QuatI /\ args.rhs = QuatJ
    /\ res = QuatK
    /\ Quaternion_mul(args.rhs, args.q) = Quaternion_new(ZERO, Vec3_neg(Vec3_Z))

----------------------------------------------------------------------------
(* Rotation of a point *)

\* The unit quaternions: those of the axes and angles, and the sixteen with
\* every part 1/2 or -1/2.
UnitQuats ==
    { Quaternion_from_axis_angle(axis, angle) : axis \in Axes, angle \in HalvedAngles }
    \cup { Quaternion_new(<<s[1], 2>>, Vec3_new(<<s[2], 2>>, <<s[3], 2>>, <<s[4], 2>>)) :
            s \in [1..4 -> {-1, 1}] }

Rotate ==
    /\ Idle
    /\ UNCHANGED <<poolVars, camera>>
    /\ \E axis \in Axes, angle \in HalvedAngles, point \in Vectors(3) :
        /\ op' = "Quaternion::rotate"
        /\ args' = [axis |-> axis, angle |-> angle, point |-> point]
        /\ res' = Quaternion_rotate(Quaternion_from_axis_angle(axis, angle), point)

FromAxisAngle3 ==
    /\ Idle
    /\ UNCHANGED <<poolVars, camera>>
    /\ \E axis \in Axes, angle \in HalvedAngles :
        /\ op' = "Mat3::from_axis_angle"
        /\ args' = [axis |-> axis, angle |-> angle]
        /\ res' = Mat3_from_axis_angle(axis, angle)

FromQuat ==
    /\ Idle
    /\ UNCHANGED <<poolVars, camera>>
    /\ \E quat \in UnitQuats :
        /\ op' = "Mat3::from_quat"
        /\ args' = [quat |-> quat]
        /\ res' = Mat3_from_quat(quat)

RotateNext == Rotate \/ FromAxisAngle3 \/ FromQuat \/ Return

RotateSpec == Init /\ [][RotateNext]_vars

\* C9: Quaternion::from_axis_angle(axis, angle).rotate(p) is
\* Mat3::from_axis_angle(axis, angle) * p; Mat3::from_axis_angle(axis, angle) is
\* Mat3::from_quat(Quaternion::from_axis_angle(axis, angle)); and for a unit
\* quaternion q, q.rotate(p) is Mat3::from_quat(q) * p.
RotateIsMatrix ==
    /\ op = "Quaternion::rotate" =>
        /\ res = Mat3_mul_vec(Mat3_from_axis_angle(args.axis, args.angle), args.point)
        /\ res = Mat3_mul_vec(
                     Mat3_from_quat(Quaternion_from_axis_angle(args.axis, args.angle)),
                     args.point)
    /\ op = "Mat3::from_axis_angle" =>
        res = Mat3_from_quat(Quaternion_from_axis_angle(args.axis, args.angle))
    /\ op = "Mat3::from_quat" =>
        /\ Quaternion_len2(args.quat) = ONE
        /\ \A p \in Vectors(3) : Quaternion_rotate(args.quat, p) = Mat3_mul_vec(res, p)

\* The point (1, 0, -MaxEntry) has been rotated about the axis (1, 2, 2) by an
\* angle whose half has the cosine 3/5: the rotated point is not the point,
\* and it is what the matrix of the axis and the angle makes of the point.
RotateWitness ==
    /\ op = "Quaternion::rotate"
    /\ args.axis = Vec3Of(<<1, 2, 2>>)
    /\ args.angle.half = AngleOf(<<3, 5>>, <<4, 5>>)
    /\ args.point = Vec3Of(<<1, 0, -MaxEntry>>)
    /\ res # args.point
    /\ res = Mat3_mul_vec(Mat3_from_axis_angle(args.axis, args.angle), args.point)

----------------------------------------------------------------------------
(* Complex numbers (complex.rs) *)

Complex_new(real, imaginary) == [re |-> real, im |-> imaginary]

Complex_one == [re |-> ONE, im |-> ZERO]

\* The product with + for - in its real part.
Complex_mul_sign_slip(c, rhs) ==
    [re |-> (c.re ** rhs.re) ++ (c.im ** rhs.im),
     im |-> (c.im ** rhs.re) ++ (c.re ** rhs.im)]

Complex_mul(c, rhs) ==
    [re |-> (c.re ** rhs.re) -- (c.im ** rhs.im),
     im |-> (c.im ** rhs.re) ++ (c.re ** rhs.im)]

MaxPow == 6

\* The bases: the complex numbers with parts of Entries, 0 and 1 + i among them.
Bases == { Complex_new(R(x), R(y)) : x \in Entries, y \in Entries }

\* powi() is called: its locals result, k and a are set.
Powi ==
    /\ Idle
    /\ UNCHANGED <<poolVars, camera>>
    /\ \E c \in Bases, pow \in 0..MaxPow :
        /\ op' = "Complex::powi"
        /\ args' = [self |-> c, pow |-> pow]
        /\ res' = [pc |-> "while", result |-> Complex_one, k |-> pow, a |-> c]

\* One turn of the loop of powi().
PowiLoop ==
    /\ op = "Complex::powi"
    /\ res.pc = "while"
    /\ res.k # 0
    /\ LET n == res.k \div 2
       IN  res' = [pc |-> "while",
                   result |-> IF 2 * n < res.k THEN Complex_mul(res.result, res.a)
                              ELSE res.result,
                   k |-> n,
                   a |-> Complex_mul(res.a, res.a)]
    /\ UNCHANGED <<op, args>>
    /\ UNCHANGED <<poolVars, camera>>

\* The loop of powi() ends: result is returned.
PowiReturn ==
    /\ op = "Complex::powi"
    /\ res.pc = "while"
    /\ res.k = 0
    /\ res' = [pc |-> "return", result |-> res.result]
    /\ UNCHANGED <<op, args>>
    /\ UNCHANGED <<poolVars, camera>>

\* The caller takes what powi() returned.
PowiTaken ==
    /\ op = "Complex::powi"
    /\ res.pc = "return"
    /\ op' = "init"
    /\ args' = <<>>
    /\ res' = <<>>
    /\ UNCHANGED <<poolVars, camera>>

PowiNext == Powi \/ PowiLoop \/ PowiReturn \/ PowiTaken

\* A call of powi() that has started runs on: the loop and the return are
\* steps of one thread.
PowiSpec ==
    Init /\ [][PowiNext]_vars /\ WF_vars(PowiLoop) /\ WF_vars(PowiReturn)

\* The n-fold product of c with itself.
RECURSIVE Power(_, _)
Power(c, n) == IF n = 0 THEN Complex_one ELSE Complex_mul(Power(c, n - 1), c)

PowiReturned == op = "Complex::powi" /\ res.pc = "return"

\* C11: powi(n) ends for every n, and it returns the n-fold product of self:
\* 1 for n = 0, whatever the base, and 2i for the square of 1 + i.  While it
\* runs, result * a^k is that product.
PowiIsPower ==
    /\ [](PowiReturned =>
            /\ res.result = Power(args.self, args.pow)
            /\ args.pow = 0 => res.result = Complex_one
            /\ (args.self = Complex_new(ONE, ONE) /\ args.pow = 2) =>
                res.result = Complex_new(ZERO, TWO))
    /\ []((op = "Complex::powi" /\ res.pc = "while") =>
            Complex_mul(res.result, Power(res.a, res.k)) = Power(args.self, args.pow))
    /\ (op = "Complex::powi") ~> PowiReturned

\* powi(5) of 1 + 2i has returned 41 - 38i, after three turns of its loop.
PowiWitness ==
    /\ PowiReturned
    /\ args.self = Complex_new(ONE, TWO)
    /\ args.pow = 5
    /\ res.result = Complex_new(R(41), R(-38))

----------------------------------------------------------------------------
(* The cross product *)

\* The vectors with components of Entries.
Vectors3 == { Vec3Of(s) : s \in [1..3 -> Entries] }

Cross ==
    /\ Idle
    /\ UNCHANGED <<poolVars, camera>>
    /\ \E vec1 \in Vectors3, vec2 \in Vectors3 :
        /\ op' = "Vec3::cross"
        /\ args' = [vec1 |-> vec1, vec2 |-> vec2]
        /\ res' = Vec3_cross(vec1, vec2)

CrossNext == Cross \/ Return

CrossSpec == Init /\ [][CrossNext]_vars

\* C12: cross(a, b) is orthogonal to a and to b, dot(cross(a, b), a) = 0 and
\* dot(cross(a, b), b) = 0, and it is the right-handed product: cross(X, Y) = Z.
CrossOrthogonal ==
    op = "Vec3::cross" =>
        /\ Vec3_dot(res, args.vec1) = ZERO
        /\ Vec3_dot(res, args.vec2) = ZERO
        /\ (args.vec1 = Vec3_X /\ args.vec2 = Vec3_Y) => res = Vec3_Z

\* The cross product has been taken of two vectors that are not parallel: it is
\* not zero, and it is orthogonal to both.
CrossWitness ==
    /\ op = "Vec3::cross"
    /\ args.vec1 = Vec3Of(<<1, 2, -1>>)
    /\ args.vec2 = Vec3Of(<<0, 1, 2>>)
    /\ res = Vec3Of(<<5, -2, 1>>)
    /\ Vec3_dot(res, args.vec1) = ZERO

----------------------------------------------------------------------------
(* Affine transforms: a 3 x 3 matrix and a translation in a 4 x 4 matrix *)

Mat3_new(array) == array

\* m3x3() reading the transposed block.
Mat4_m3x3_transposed(m) ==
    Mat3_new(<< Mat4_at(m, 0, 0), Mat4_at(m, 0, 1), Mat4_at(m, 0, 2),
                Mat4_at(m, 1, 0), Mat4_at(m, 1, 1), Mat4_at(m, 1, 2),
                Mat4_at(m, 2, 0), Mat4_at(m, 2, 1), Mat4_at(m, 2, 2) >>)

Mat4_m3x3(m) ==
    Mat3_new(<< Mat4_at(m, 0, 0), Mat4_at(m, 1, 0), Mat4_at(m, 2, 0),
                Mat4_at(m, 0, 1), Mat4_at(m, 1, 1), Mat4_at(m, 2, 1),
                Mat4_at(m, 0, 2), Mat4_at(m, 1, 2), Mat4_at(m, 2, 2) >>)

Mat4_translation(m) ==
    Vec3_new(Mat4_at(m, 0, 3), Mat4_at(m, 1, 3), Mat4_at(m, 2, 3))

Mat4_to_3x3_vec(m) == <<Mat4_m3x3(m), Mat4_translation(m)>>

Mat4_from_3x3_vec(mat3, vec) ==
    << Mat3_at(mat3, 0, 0), Mat3_at(mat3, 1, 0), Mat3_at(mat3, 2, 0), ZERO,
       Mat3_at(mat3, 0, 1), Mat3_at(mat3, 1, 1), Mat3_at(mat3, 2, 1), ZERO,
       Mat3_at(mat3, 0, 2), Mat3_at(mat3, 1, 2), Mat3_at(mat3, 2, 2), ZERO,
       vec.x, vec.y, vec.z, ONE >>

From3x3Vec ==
    /\ Idle
    /\ UNCHANGED <<poolVars, camera>>
    /\ \E A \in OneOff(3), vec \in Vectors(3) :
        /\ op' = "Mat4::from_3x3_vec"
        /\ args' = [mat3 |-> MatOf(3, A), vec |-> vec]
        /\ res' = Mat4_from_3x3_vec(MatOf(3, A), vec)

\* to_3x3_vec() of the matrix from_3x3_vec() packs.
To3x3Vec ==
    /\ Idle
    /\ UNCHANGED <<poolVars, camera>>
    /\ \E A \in OneOff(3), vec \in Vectors(3) :
        /\ op' = "Mat4::to_3x3_vec"
        /\ args' = [mat3 |-> MatOf(3, A), vec |-> vec,
                    m |-> Mat4_from_3x3_vec(MatOf(3, A), vec)]
        /\ res' = Mat4_to_3x3_vec(Mat4_from_3x3_vec(MatOf(3, A), vec))

AffineNext == From3x3Vec \/ To3x3Vec \/ Return

AffineSpec == Init /\ [][AffineNext]_vars

\* C13: from_3x3_vec(m, v).to_3x3_vec() is (m, v); the bottom row of
\* from_3x3_vec(m, v) is 0, 0, 0, 1, its upper left block is m and its last
\* column is v.
AffineRoundTrip ==
    /\ op = "Mat4::from_3x3_vec" =>
        /\ \A i \in 0..2, j \in 0..2 : Mat4_at(res, i, j) = Mat3_at(args.mat3, i, j)
        /\ \A i \in 0..2 : Mat4_at(res, i, 3) = Component(args.vec, i)
        /\ \A j \in 0..2 : Mat4_at(res, 3, j) = ZERO
        /\ Mat4_at(res, 3, 3) = ONE
        /\ Mat4_to_3x3_vec(res) = <<args.mat3, args.vec>>
    /\ op = "Mat4::to_3x3_vec" => res = <<args.mat3, args.vec>>

\* The first 3 x 3 matrix of the test, which is not symmetric, and the vector
\* (1, 0, -MaxEntry) have been packed and unpacked again.
AffineWitness ==
    /\ op = "Mat4::to_3x3_vec"
    /\ args.mat3 = MatOf(3, TestM1_3)
    /\ args.vec = Vec3Of(<<1, 0, -MaxEntry>>)
    /\ Mat4_at(args.m, 0, 1) = ONE /\ Mat4_at(args.m, 1, 0) = R(3)
    /\ res = <<args.mat3, args.vec>>

----------------------------------------------------------------------------
(* Colours: hex strings and Rgb (color/convert.rs) *)

\* A string is the sequence of its characters.
UpperDigits == <<"0", "1", "2", "3", "4", "5", "6", "7", "8", "9", "A", "B", "C", "D", "E", "F">>
LowerDigits == <<"0", "1", "2", "3", "4", "5", "6", "7", "8", "9", "a", "b", "c", "d", "e", "f">>

\* The greatest u8.
U8Max == 255

\* char::to_digit(16): the value of a hex digit in either case, -1 for None.
ToDigit(c) ==
    IF \E i \in 1..16 : UpperDigits[i] = c
    THEN (CHOOSE i \in 1..16 : UpperDigits[i] = c) - 1
    ELSE IF \E i \in 1..16 : LowerDigits[i] = c
    THEN (CHOOSE i \in 1..16 : LowerDigits[i] = c) - 1
    ELSE -1

\* The value of the digits after acc, or -1 for Err: a character that is no
\* digit, or a value above the greatest u8.
RECURSIVE Accumulate(_, _)
Accumulate(digits, acc) ==
    IF digits = <<>> THEN acc
    ELSE IF ToDigit(Head(digits)) = -1 THEN -1
    ELSE IF acc * 16 + ToDigit(Head(digits)) > U8Max THEN -1
    ELSE Accumulate(Tail(digits), acc * 16 + ToDigit(Head(digits)))

\* u8::from_str_radix(src, 16).unwrap_or(0): a sign alone and an empty string
\* are errors, a leading + is skipped, a leading - is no digit.
U8FromStrRadix16(src) ==
    LET parsed ==
            IF src = <<>> THEN -1
            ELSE IF Len(src) = 1 /\ Head(src) \in {"+", "-"} THEN -1
            ELSE IF Head(src) = "+" THEN Accumulate(Tail(src), 0)
            ELSE Accumulate(src, 0)
    IN  IF parsed = -1 THEN 0 ELSE parsed

Rgb_new(r, g, b) == [r |-> r, g |-> g, b |-> b]

\* &hex[from..to], zero indexed, to excluded.
Slice(hex, from, to) == SubSeq(hex, from + 1, to)

hex_to_rgb(hex) ==
    LET r == U8FromStrRadix16(Slice(hex, 1, 3))
        g == U8FromStrRadix16(Slice(hex, 3, 5))
        b == U8FromStrRadix16(Slice(hex, 5, Len(hex)))
    IN  Rgb_new(r, g, b)

\* {:02X}: two upper case hex digits.
Format02X(v) == <<UpperDigits[(v \div 16) + 1], UpperDigits[(v % 16) + 1]>>

\* {:02X} with its two digits exchanged.
Format02X_swapped(v) == <<UpperDigits[(v % 16) + 1], UpperDigits[(v \div 16) + 1]>>

\* rgb_to_hex() with the digits of the green channel exchanged.
rgb_to_hex_swapped(rgb) ==
    <<"#">> \o Format02X(rgb.r) \o Format02X_swapped(rgb.g) \o Format02X(rgb.b)

rgb_to_hex(rgb) ==
    <<"#">> \o Format02X(rgb.r) \o Format02X(rgb.g) \o Format02X(rgb.b)

\* Channel values that are given to the channels which do not run over every u8.
SampleBytes == {10, 171, 255}

\* The colours with one channel of any value and two of the samples.
Rgbs(S) ==
    { Rgb_new(v, s, t) : v \in 0..U8Max, s \in S, t \in S }
    \cup { Rgb_new(s, v, t) : v \in 0..U8Max, s \in S, t \in S }
    \cup { Rgb_new(s, t, v) : v \in 0..U8Max, s \in S, t \in S }

\* The characters of the strings: the hex digits in both cases, the signs, and
\* a letter that is no digit.
Characters ==
    { UpperDigits[i] : i \in 1..16 } \cup { LowerDigits[i] : i \in 1..16 } \cup {"+", "-", "g"}

SamplePairs == {<<"a", "B">>, <<"F", "f">>, <<"9", "c">>}

AllPairs(C) == { <<c, d>> : c \in C, d \in C }

\* The strings of # and three pairs of characters: one pair of any two
\* characters and two of the samples.
Hexes(S) ==
    { <<"#">> \o p \o s \o t : p \in AllPairs(Characters), s \in S, t \in S }
    \cup { <<"#">> \o s \o p \o t : p \in AllPairs(Characters), s \in S, t \in S }
    \cup { <<"#">> \o s \o t \o p : p \in AllPairs(Characters), s \in S, t \in S }

RgbToHex ==
    /\ Idle
    /\ UNCHANGED <<poolVars, camera>>
    /\ \E rgb \in Rgbs(SampleBytes) :
        /\ op' = "rgb_to_hex"
        /\ args' = [rgb |-> rgb]
        /\ res' = rgb_to_hex(rgb)

HexToRgb ==
    /\ Idle
    /\ UNCHANGED <<poolVars, camera>>
    /\ \E hex \in Hexes(SamplePairs) :
        /\ op' = "hex_to_rgb"
        /\ args' = [hex |-> hex]
        /\ res' = hex_to_rgb(hex)

ColorNext == RgbToHex \/ HexToRgb \/ Return

ColorSpec == Init /\ [][ColorNext]_vars

\* str::to_lowercase() on the characters of the strings.
ToLower(s) ==
    [i \in 1..Len(s) |->
        IF \E k \in 1..16 : UpperDigits[k] = s[i]
        THEN LowerDigits[CHOOSE k \in 1..16 : UpperDigits[k] = s[i]]
        ELSE s[i]]

\* The string is # and six hex digits, in either case.
IsHexColor(s) ==
    /\ Len(s) = 7
    /\ s[1] = "#"
    /\ \A i \in 2..7 : ToDigit(s[i]) # -1

\* C14: hex_to_rgb(rgb_to_hex(rgb)) is rgb, and rgb_to_hex(rgb) is 7 characters,
\* # and six upper case hex digits; for a string h of # and six hex digits in
\* either case, rgb_to_hex(hex_to_rgb(h)) is h, case apart.
HexRgbRoundTrip ==
    /\ op = "rgb_to_hex" =>
        /\ Len(res) = 7
        /\ res[1] = "#"
        /\ \A i \in 2..7 : \E k \in 1..16 : res[i] = UpperDigits[k]
        /\ hex_to_rgb(res) = args.rgb
    /\ (op = "hex_to_rgb" /\ IsHexColor(args.hex)) =>
        ToLower(rgb_to_hex(res)) = ToLower(args.hex)

\* hex_to_rgb() has been called with a string of digits in both cases: the
\* string it is formatted back to is not the string, but it is so case apart.
HexRgbWitness ==
    /\ op = "hex_to_rgb"
    /\ args.hex = <<"#", "a", "B", "9", "c", "F", "f">>
    /\ res = Rgb_new(171, 156, 255)
    /\ rgb_to_hex(res) = <<"#", "A", "B", "9", "C", "F", "F">>

----------------------------------------------------------------------------
(* The thread pool (soh_thread: job_queue.rs, thread_pool.rs, worker.rs) *)

\* A job is the number it was added as: 1 for the first, 2 for the second.
\* An Option is a sequence of no element or of one.

\* get_num_of_jobs() that counts the waiting jobs only.
JobQueue_get_num_of_jobs_waiting_only(q) == Len(q.jobs)

\* take_job() that leaves in_process alone.
JobQueue_take_job_uncounted(q) ==
    IF q.jobs # <<>>
    THEN [queue |-> [q EXCEPT !.jobs = Tail(q.jobs)], job |-> <<Head(q.jobs)>>]
    ELSE [queue |-> q, job |-> <<>>]

\* take_job() that returns the front job and leaves it in the queue.
JobQueue_take_job_kept(q) ==
    IF q.jobs # <<>>
    THEN [queue |-> [q EXCEPT !.in_process = q.in_process + 1], job |-> <<Head(q.jobs)>>]
    ELSE [queue |-> q, job |-> <<>>]

\* signal_finished() that leaves in_process alone.
JobQueue_signal_finished_silent(q) == [queue |-> q, panic |-> q.in_process = 0]

\* add_job() that pushes to the front.
JobQueue_add_job_front(q, job) == [q EXCEPT !.jobs = <<job>> \o q.jobs]

JobQueue_new == [jobs |-> <<>>, in_process |-> 0]

JobQueue_add_job(q, job) == [q EXCEPT !.jobs = Append(q.jobs, job)]

JobQueue_get_num_of_jobs(q) == Len(q.jobs) + q.in_process

\* The queue after take_job(), and the job it returns.
JobQueue_take_job(q) ==
    IF q.jobs # <<>>
    THEN [queue |-> [jobs |-> Tail(q.jobs), in_process |-> q.in_process + 1],
          job |-> <<Head(q.jobs)>>]
    ELSE [queue |-> q, job |-> <<>>]

\* The queue after signal_finished(), and whether its assert failed.
JobQueue_signal_finished(q) ==
    IF q.in_process = 0
    THEN [queue |-> q, panic |-> TRUE]
    ELSE [queue |-> [q EXCEPT !.in_process = q.in_process - 1], panic |-> FALSE]

\* The global JOB_QUEUE.
JOB_QUEUE == [jobs |-> jobs, in_process |-> in_process]

MaxJobs == 3

MaxSize == 4

\* The workers ThreadPool::new(size) spawns, one for each turn of its loop
\* over 1..size; a worker starts at the lock of the receiver.
SpawnWorkers(size) == [i \in 1..(size - 1) |-> [pc |-> "lock", job |-> 0]]

\* The workers that hold a JobQueueHandle: they run a job.
Running == { w \in DOMAIN workers : workers[w].pc = "run" }

\* add_job!(..): the job is added to JOB_QUEUE under its lock.
AddJob ==
    /\ added < MaxJobs
    /\ added' = added + 1
    /\ jobs' = JobQueue_add_job(JOB_QUEUE, added + 1).jobs
    /\ in_process' = JobQueue_add_job(JOB_QUEUE, added + 1).in_process
    /\ op' = "add_job"
    /\ args' = [job |-> added + 1]
    /\ res' = <<>>
    /\ UNCHANGED <<channel, workers, sender, sent, finished, camera>>

\* ThreadPool::new(size): it panics unless size > 2.
New ==
    /\ sender = "unbuilt"
    /\ \E size \in 0..MaxSize :
        /\ op' = "ThreadPool::new"
        /\ args' = [size |-> size]
        /\ IF size > 2
           THEN /\ workers' = SpawnWorkers(size)
                /\ sender' = "some"
                /\ res' = "built"
           ELSE /\ res' = "panic"
                /\ UNCHANGED <<workers, sender>>
    /\ UNCHANGED <<jobs, in_process, channel, added, sent, finished, camera>>

\* poke(), all of it under the lock of JOB_QUEUE.  The arguments record what
\* waits and what is dispatched and not finished at the moment of the call.
Poke ==
    /\ sender = "some"
    /\ op' = "ThreadPool::poke"
    /\ args' = [waiting |-> Len(jobs), unfinished |-> Len(channel) + Cardinality(Running)]
    /\ IF JobQueue_get_num_of_jobs(JOB_QUEUE) = 0
       THEN /\ res' = TRUE
            /\ UNCHANGED <<jobs, in_process, channel, sent>>
       ELSE LET taken == JobQueue_take_job(JOB_QUEUE)
            IN  /\ jobs' = taken.queue.jobs
                /\ in_process' = taken.queue.in_process
                /\ channel' = channel \o taken.job
                /\ sent' = sent \o taken.job
                /\ res' = FALSE
    /\ UNCHANGED <<workers, sender, added, finished, camera>>

\* A worker locks the receiver, which no other worker holds, and calls recv().
LockReceiver(w) ==
    /\ workers[w].pc = "lock"
    /\ \A v \in DOMAIN workers : workers[v].pc # "recv"
    /\ workers' = [workers EXCEPT ![w] = [pc |-> "recv", job |-> 0]]
    /\ UNCHANGED <<op, args, res, jobs, in_process, channel, sender, added, sent, finished, camera>>

\* A worker runs a job that calls add_job!(..): the new job is added to
\* JOB_QUEUE under its lock, which the worker does not hold while the job runs.
AddsJob(w) ==
    /\ workers[w].pc = "run"
    /\ added < MaxJobs
    /\ added' = added + 1
    /\ jobs' = JobQueue_add_job(JOB_QUEUE, added + 1).jobs
    /\ in_process' = JobQueue_add_job(JOB_QUEUE, added + 1).in_process
    /\ UNCHANGED <<op, args, res, channel, workers, sender, sent, finished, camera>>

\* The recv() of the worker that holds the receiver returns a job: the lock is
\* released at the end of the statement, the worker makes its JobQueueHandle
\* and starts the job.
Recv(w) ==
    /\ workers[w].pc = "recv"
    /\ channel # <<>>
    /\ workers' = [workers EXCEPT ![w] = [pc |-> "run", job |-> Head(channel)]]
    /\ channel' = Tail(channel)
    /\ UNCHANGED <<op, args, res, jobs, in_process, sender, added, sent, finished, camera>>

\* A worker's job has returned, Ok or Err: its JobQueueHandle is dropped, which
\* is signal_finished() under the lock of JOB_QUEUE.
Finished(w) ==
    /\ workers[w].pc = "run"
    /\ LET done == JobQueue_signal_finished(JOB_QUEUE)
       IN  /\ jobs' = done.queue.jobs
           /\ in_process' = done.queue.in_process
           /\ workers' = [workers EXCEPT
                  ![w] = [pc |-> IF done.panic THEN "panic" ELSE "lock", job |-> 0]]
    /\ finished' = Append(finished, workers[w].job)
    /\ UNCHANGED <<op, args, res, channel, sender, added, sent, camera>>

\* A worker's recv() returns Err, the sender being dropped and the channel
\* empty: the worker leaves its loop.
Exit(w) ==
    /\ workers[w].pc = "recv"
    /\ channel = <<>>
    /\ sender = "taken"
    /\ workers' = [workers EXCEPT ![w] = [pc |-> "exit", job |-> 0]]
    /\ UNCHANGED <<op, args, res, jobs, in_process, channel, sender, added, sent, finished, camera>>

\* drop of the pool: the sender is taken and dropped.
DropPool ==
    /\ sender = "some"
    /\ sender' = "taken"
    /\ op' = "ThreadPool::drop"
    /\ args' = <<>>
    /\ res' = <<>>
    /\ UNCHANGED <<jobs, in_process, channel, workers, added, sent, finished, camera>>

Worker ==
    \E w \in DOMAIN workers :
        LockReceiver(w) \/ Recv(w) \/ Finished(w) \/ Exit(w) \/ AddsJob(w)

PoolNext == AddJob \/ New \/ Poke \/ DropPool \/ Worker

PoolSpec == Init /\ [][PoolNext]_vars

\* C15: poke() returns true if and only if, at the moment of the call, no job
\* waits in JOB_QUEUE and no dispatched job is unfinished.
PokeTellsFinished ==
    op = "ThreadPool::poke" =>
        (res = TRUE <=> (args.waiting = 0 /\ args.unfinished = 0))

\* poke() has returned true after every job was added, sent and finished.
PokeWitness ==
    /\ op = "ThreadPool::poke"
    /\ res = TRUE
    /\ added = MaxJobs
    /\ Len(sent) = MaxJobs

\* C16: ThreadPool::new(size) panics unless size > 2, and otherwise the pool has
\* size worker threads.
NewSpawnsSize ==
    op = "ThreadPool::new" =>
        /\ res = "panic" <=> ~(args.size > 2)
        /\ res # "panic" => Len(workers) = args.size

\* C17: in_process is the number of the jobs take_job() returned whose
\* JobQueueHandle is not dropped yet (those in the channel and those a worker
\* runs), get_num_of_jobs() is that number and the number of the waiting jobs,
\* and the assert of signal_finished() does not fail.
InProcessCounts ==
    /\ in_process = Len(channel) + Cardinality(Running)
    /\ JobQueue_get_num_of_jobs(JOB_QUEUE) = Len(jobs) + Len(channel) + Cardinality(Running)
    /\ \A w \in DOMAIN workers : workers[w].pc # "panic"

\* Two jobs are taken and unfinished, one in the channel and one that a worker
\* runs, while a third waits.
InProcessWitness ==
    /\ in_process = 2
    /\ Len(channel) = 1
    /\ Cardinality(Running) = 1
    /\ Len(jobs) = 1

\* The jobs from the a-th to the b-th, in the order they were added.
Added(a, b) == [i \in 1..(b - a + 1) |-> a + i - 1]

\* C18: the jobs are sent in the order they were added.  add_job() appends to
\* the queue and starts nothing; poke() sends one job at most, the one at the
\* front of the queue; so the jobs sent are the first jobs added, in order, and
\* the jobs waiting are the rest, in order.
FifoDispatch ==
    /\ [](sent = Added(1, Len(sent)) /\ jobs = Added(Len(sent) + 1, added))
    /\ [][AddJob => /\ jobs' = Append(jobs, added')
                    /\ UNCHANGED <<in_process, channel, workers, sent>>]_vars
    /\ [][Poke => \/ jobs = <<>> /\ UNCHANGED <<jobs, channel, sent>>
                  \/ /\ jobs # <<>>
                     /\ jobs' = Tail(jobs)
                     /\ channel' = Append(channel, Head(jobs))
                     /\ sent' = Append(sent, Head(jobs))]_vars

\* Two jobs have been sent, the first and the second, while the third waits
\* and the worker has not taken the second yet.
FifoWitness ==
    /\ sent = <<1, 2>>
    /\ jobs = <<3>>
    /\ channel = <<2>>

----------------------------------------------------------------------------
(* Unsigned integers of 32 and 64 bits (soh_rng: gen_trait.rs) *)

\* An unsigned integer is the sequence of its digits in base 256, the lowest
\* first and the highest not 0; 0 is the empty sequence.

\* l without its high zeros.
RECURSIVE Trim(_)
Trim(l) == IF l = <<>> \/ l[Len(l)] # 0 THEN l ELSE Trim(SubSeq(l, 1, Len(l) - 1))

\* The digits of the number n.
RECURSIVE Digits(_)
Digits(n) == IF n = 0 THEN <<>> ELSE <<n % 256>> \o Digits(n \div 256)

\* The number of the digits l, for a number small enough to count with.
RECURSIVE Number(_)
Number(l) == IF l = <<>> THEN 0 ELSE l[1] + 256 * Number(Tail(l))

Rest(l) == IF l = <<>> THEN <<>> ELSE Tail(l)

Lowest(l) == IF l = <<>> THEN 0 ELSE l[1]

\* a + b + carry, of any width.
RECURSIVE WideAdd(_, _, _)
WideAdd(a, b, carry) ==
    IF a = <<>> /\ b = <<>>
    THEN Digits(carry)
    ELSE LET s == Lowest(a) + Lowest(b) + carry
         IN  <<s % 256>> \o WideAdd(Rest(a), Rest(b), s \div 256)

\* a * d + carry for one digit d.
RECURSIVE TimesDigit(_, _, _)
TimesDigit(a, d, carry) ==
    IF a = <<>>
    THEN Digits(carry)
    ELSE LET p == a[1] * d + carry
         IN  <<p % 256>> \o TimesDigit(Tail(a), d, p \div 256)

\* a * b, of any width.
RECURSIVE WideMul(_, _)
WideMul(a, b) ==
    IF b = <<>>
    THEN <<>>
    ELSE Trim(WideAdd(TimesDigit(a, b[1], 0), <<0>> \o WideMul(a, Tail(b)), 0))

\* a >> bits, for a whole number of bytes.
ShiftRight(a, bits) ==
    IF Len(a) <= bits \div 8 THEN <<>> ELSE SubSeq(a, bits \div 8 + 1, Len(a))

\* The low bits of a: a cast to the width, a & 0xFFFFFFFF for 32, and the
\* result of wrapping arithmetic.
Truncate(a, bits) ==
    IF Len(a) <= bits \div 8 THEN a ELSE Trim(SubSeq(a, 1, bits \div 8))

\* a < b.
RECURSIVE Below(_, _)
Below(a, b) ==
    IF Len(a) # Len(b) THEN Len(a) < Len(b)
    ELSE IF a = <<>> THEN FALSE
    ELSE IF a[Len(a)] # b[Len(b)] THEN a[Len(a)] < b[Len(b)]
    ELSE Below(Trim(SubSeq(a, 1, Len(a) - 1)), Trim(SubSeq(b, 1, Len(b) - 1)))

\* a - 1 for a that is not 0.
RECURSIVE Pred(_)
Pred(a) ==
    IF a[1] > 0
    THEN Trim(<<a[1] - 1>> \o Tail(a))
    ELSE <<255>> \o Pred(Tail(a))

\* 2^k.
Pow2(k) == [i \in 1..(k \div 8 + 1) |-> IF i = k \div 8 + 1 THEN 2 ^ (k % 8) ELSE 0]

\* The highest number of the width.
AllOnes(bits) == [i \in 1..(bits \div 8) |-> 255]

\* Multiplication and addition of u64; neither overflows where it is used
\* below, and the wrapped value stands for the one that would.
U64Mul(a, b) == Truncate(WideMul(a, b), 64)

U64Add(a, b) == Truncate(WideAdd(a, b, 0), 64)

get_hi_bits_for_u32_mul(a, b) == Truncate(ShiftRight(U64Mul(a, b), 32), 32)

get_hi_bits_for_u64_mul(a, b) ==
    LET a_hi == ShiftRight(a, 32)
        a_lo == Truncate(a, 32)
        b_hi == ShiftRight(b, 32)
        b_lo == Truncate(b, 32)
    IN  U64Add(U64Add(ShiftRight(U64Mul(a_hi, b_lo), 32),
                      ShiftRight(U64Mul(a_lo, b_hi), 32)),
               U64Mul(a_hi, b_hi))

\* Numbers of 32 bits: the ends, the middle and its neighbours.
Words32 ==
    { <<>>, Digits(1), Digits(3), Pow2(16), Pow2(30), Pow2(31),
      WideAdd(Pow2(31), Pow2(30), 0), Pred(Pow2(31)), AllOnes(32) }

\* Numbers of 64 bits: those of 32 bits, and the ends, the middle and numbers
\* with both halves set.
Words64 ==
    Words32 \cup
    { Pow2(32), WideAdd(Pow2(32), Pow2(31), 0), WideAdd(Pow2(32), Digits(1), 0),
      Pow2(62), Pow2(63), WideAdd(Pow2(63), Pow2(62), 0), Pred(Pow2(63)),
      AllOnes(64) }

HiBits32 ==
    /\ Idle
    /\ UNCHANGED <<poolVars, camera>>
    /\ \E a \in Words32, b \in Words32 :
        /\ op' = "get_hi_bits_for_u32_mul"
        /\ args' = [a |-> a, b |-> b]
        /\ res' = get_hi_bits_for_u32_mul(a, b)

HiBits64 ==
    /\ Idle
    /\ UNCHANGED <<poolVars, camera>>
    /\ \E a \in Words64, b \in Words64 :
        /\ op' = "get_hi_bits_for_u64_mul"
        /\ args' = [a |-> a, b |-> b]
        /\ res' = get_hi_bits_for_u64_mul(a, b)

HiBitsNext == HiBits32 \/ HiBits64 \/ Return

HiBitsSpec == Init /\ [][HiBitsNext]_vars

\* C20: get_hi_bits_for_u64_mul(a, b) is floor(a * b / 2^64) of the full
\* product, and get_hi_bits_for_u32_mul(a, b) is floor(a * b / 2^32).
HiBitsAreHigh ==
    /\ op = "get_hi_bits_for_u64_mul" => res = ShiftRight(WideMul(args.a, args.b), 64)
    /\ op = "get_hi_bits_for_u32_mul" => res = ShiftRight(WideMul(args.a, args.b), 32)

----------------------------------------------------------------------------
(* Fisher-Yates shuffle (soh_rng: engine/traits.rs) *)

\* A slice is its length and the elements that are not where they started:
\* the element that started at index k is k, and moved maps the indices that
\* were swapped to the elements they hold now.
SliceOf(len) == [len |-> len, moved |-> [k \in {} |-> k]]

ElementAt(array, k) == IF k \in DOMAIN array.moved THEN array.moved[k] ELSE k

\* array.swap(i, j) for indices inside the slice.
Slice_swap(array, i, j) ==
    [array EXCEPT !.moved =
        [k \in DOMAIN array.moved \cup {i, j} |->
            IF k = i THEN ElementAt(array, j)
            ELSE IF k = j THEN ElementAt(array, i)
            ELSE array.moved[k]]]

\* from_rand_32_to() for u32, and from_rand_64_to() for usize.
from_rand_32_to(rnum, to) == Truncate(get_hi_bits_for_u32_mul(rnum, Truncate(to, 32)), 32)

from_rand_64_to(rnum, to) == Truncate(get_hi_bits_for_u64_mul(rnum, Truncate(to, 64)), 64)

MaxLen == 3

\* The lengths of the slices shuffled: the short ones, and the first one whose
\* last index does not fit in 32 bits.
Lens == { Digits(n) : n \in 0..MaxLen } \cup { Pow2(32) }

\* Engine32::shuffle() is called.  overflow_checks is how the program was
\* built: with them an overflow of + panics, without them it wraps.
Shuffle32 ==
    /\ Idle
    /\ UNCHANGED <<poolVars, camera>>
    /\ \E len \in Lens, checks \in BOOLEAN :
        /\ op' = "Engine32::shuffle"
        /\ args' = [len |-> len, overflow_checks |-> checks]
        /\ res' = [pc |-> "for", range |-> len, array |-> SliceOf(len),
                   turns |-> 0, last |-> <<>>]

\* Engine64::shuffle() is called.
Shuffle64 ==
    /\ Idle
    /\ UNCHANGED <<poolVars, camera>>
    /\ \E len \in Lens :
        /\ op' = "Engine64::shuffle"
        /\ args' = [len |-> len]
        /\ res' = [pc |-> "for", range |-> len, array |-> SliceOf(len),
                   turns |-> 0, last |-> <<>>]

\* The state after array.swap(i, j), which panics for an index outside.
Swapped(i, j) ==
    IF Below(i, res.array.len) /\ Below(j, res.array.len)
    THEN [pc |-> "for", range |-> i, array |-> Slice_swap(res.array, i, j),
          turns |-> res.turns + 1, last |-> <<i, j>>]
    ELSE [res EXCEPT !.pc = "panic", !.last = <<i, j>>]

\* One turn of the loop of Engine32::shuffle(), i being the last of the range
\* 0..range; rnum is what next() returns.
Turn32 ==
    /\ op = "Engine32::shuffle"
    /\ res.pc = "for"
    /\ res.range # <<>>
    /\ res.turns < MaxLen
    /\ \E rnum \in Words32 :
        LET i == Pred(res.range)
            sum == WideAdd(Truncate(i, 32), Digits(1), 0)
        IN  IF sum # Truncate(sum, 32) /\ args.overflow_checks
            THEN res' = [res EXCEPT !.pc = "panic"]
            ELSE res' = Swapped(i, from_rand_32_to(rnum, Truncate(sum, 32)))
    /\ UNCHANGED <<op, args>>
    /\ UNCHANGED <<poolVars, camera>>

\* One turn of the loop of Engine64::shuffle().
Turn64 ==
    /\ op = "Engine64::shuffle"
    /\ res.pc = "for"
    /\ res.range # <<>>
    /\ res.turns < MaxLen
    /\ \E rnum \in Words64 :
        LET i == Pred(res.range)
        IN  res' = Swapped(i, from_rand_64_to(rnum, WideAdd(i, Digits(1), 0)))
    /\ UNCHANGED <<op, args>>
    /\ UNCHANGED <<poolVars, camera>>

\* The range is empty: shuffle() returns.
ShuffleReturn ==
    /\ op \in {"Engine32::shuffle", "Engine64::shuffle"}
    /\ res.pc = "for"
    /\ res.range = <<>>
    /\ res' = [res EXCEPT !.pc = "return"]
    /\ UNCHANGED <<op, args>>
    /\ UNCHANGED <<poolVars, camera>>

\* The caller has its slice back.
ShuffleTaken ==
    /\ op \in {"Engine32::shuffle", "Engine64::shuffle"}
    /\ res.pc = "return"
    /\ op' = "init"
    /\ args' = <<>>
    /\ res' = <<>>
    /\ UNCHANGED <<poolVars, camera>>

ShuffleNext ==
    Shuffle32 \/ Shuffle64 \/ Turn32 \/ Turn64 \/ ShuffleReturn \/ ShuffleTaken

ShuffleSpec == Init /\ [][ShuffleNext]_vars

\* The elements of the slice are the elements it started with, each once.
IsPermutation(array) ==
    /\ \A k \in DOMAIN array.moved : Below(k, array.len)
    /\ { array.moved[k] : k \in DOMAIN array.moved } = DOMAIN array.moved

\* C19: Engine32::shuffle() and Engine64::shuffle() permute the slice, for
\* every length and whatever next() returns: no turn panics, each swaps i with
\* a j that is not above i, and the slice holds the elements it started with.
ShufflePermutes ==
    op \in {"Engine32::shuffle", "Engine64::shuffle"} =>
        /\ res.pc # "panic"
        /\ res.last # <<>> => ~Below(res.last[1], res.last[2])
        /\ IsPermutation(res.array)

----------------------------------------------------------------------------
(* Integers drawn below a bound and in a range (soh_rng: gen_trait.rs) *)

\* An integer type is its width and whether it is signed; a value of a signed
\* type is its bit pattern, the number it is in two's complement.
IntType(bits, signed) == [bits |-> bits, signed |-> signed]

\* The types of impl_32! and of impl_64!.
Types32 == { IntType(bits, signed) : bits \in {8, 16, 32}, signed \in BOOLEAN }

Types64 == { IntType(bits, signed) : bits \in {8, 16, 32, 64}, signed \in BOOLEAN }

\* x < 0 for a value of a signed type.
IsNegative(x, bits) == ~Below(x, Pow2(bits - 1))

\* The pattern of all bits of x flipped.
Complement(x, bits) ==
    Trim([i \in 1..(bits \div 8) |-> 255 - (IF i <= Len(x) THEN x[i] ELSE 0)])

\* a + b and a - b of a type, wrapped to its width.
WrappingAdd(a, b, bits) == Truncate(WideAdd(a, b, 0), bits)

WrappingSub(a, b, bits) == Truncate(WideAdd(a, Complement(b, bits), 1), bits)

\* Whether a + b, a - b overflow the type.
AddOverflows(type, a, b) ==
    IF type.signed
    THEN /\ IsNegative(a, type.bits) = IsNegative(b, type.bits)
         /\ IsNegative(WrappingAdd(a, b, type.bits), type.bits) # IsNegative(a, type.bits)
    ELSE WideAdd(a, b, 0) # WrappingAdd(a, b, type.bits)

SubOverflows(type, a, b) ==
    IF type.signed
    THEN /\ IsNegative(a, type.bits) # IsNegative(b, type.bits)
         /\ IsNegative(WrappingSub(a, b, type.bits), type.bits) # IsNegative(a, type.bits)
    ELSE Below(a, b)

\* a < b in the order of the type: for a signed type the patterns are compared
\* with the sign bit flipped.
LessIn(type, a, b) ==
    IF type.signed
    THEN Below(WrappingAdd(a, Pow2(type.bits - 1), type.bits),
               WrappingAdd(b, Pow2(type.bits - 1), type.bits))
    ELSE Below(a, b)

\* 'x as u32' and 'x as u64' of a value of the type: a negative one is sign
\* extended, which the callers below never ask for.
CastTo(x, type, bits) ==
    IF type.signed /\ IsNegative(x, type.bits)
    THEN Truncate(WideAdd(x, WrappingSub(Pow2(bits) , Pow2(type.bits), bits + 8), 0), bits)
    ELSE Truncate(x, bits)

\* from_rand_32_to() of impl_32!, for the unsigned type and for the signed.
impl_32_from_rand_32_to(type, rnum, to) ==
    IF type.signed /\ IsNegative(to, type.bits)
    THEN <<>>
    ELSE Truncate(get_hi_bits_for_u32_mul(rnum, CastTo(to, type, 32)), type.bits)

\* from_rand_64_to() of impl_64!.
impl_64_from_rand_64_to(type, rnum, to) ==
    IF type.signed /\ IsNegative(to, type.bits)
    THEN <<>>
    ELSE Truncate(get_hi_bits_for_u64_mul(rnum, CastTo(to, type, 64)), type.bits)

\* from + from_rand_to(rnum, to - from), the default of both traits; with
\* overflow checks an overflow of - or of + panics, without them it wraps.  The
\* result is the value returned, or a panic.
from_rand_32_range(type, rnum, from, to, checks) ==
    LET span == WrappingSub(to, from, type.bits)
        v == impl_32_from_rand_32_to(type, rnum, span)
    IN  IF checks /\ (SubOverflows(type, to, from) \/ AddOverflows(type, from, v))
        THEN [panic |-> TRUE, value |-> <<>>]
        ELSE [panic |-> FALSE, value |-> WrappingAdd(from, v, type.bits)]

from_rand_64_range(type, rnum, from, to, checks) ==
    LET span == WrappingSub(to, from, type.bits)
        v == impl_64_from_rand_64_to(type, rnum, span)
    IN  IF checks /\ (SubOverflows(type, to, from) \/ AddOverflows(type, from, v))
        THEN [panic |-> TRUE, value |-> <<>>]
        ELSE [panic |-> FALSE, value |-> WrappingAdd(from, v, type.bits)]

\* Whether a product or a sum inside get_hi_bits_for_u64_mul(a, b) leaves 64
\* bits.
HiBits64Overflows(a, b) ==
    LET a_hi == ShiftRight(a, 32)
        a_lo == Truncate(a, 32)
        b_hi == ShiftRight(b, 32)
        b_lo == Truncate(b, 32)
        first == WideAdd(ShiftRight(U64Mul(a_hi, b_lo), 32),
                         ShiftRight(U64Mul(a_lo, b_hi), 32), 0)
    IN  \/ WideMul(a_hi, b_lo) # U64Mul(a_hi, b_lo)
        \/ WideMul(a_lo, b_hi) # U64Mul(a_lo, b_hi)
        \/ WideMul(a_hi, b_hi) # U64Mul(a_hi, b_hi)
        \/ first # Truncate(first, 64)
        \/ WideAdd(first, U64Mul(a_hi, b_hi), 0) # U64Add(first, U64Mul(a_hi, b_hi))

\* Values of a type: the ends, the middle and small ones.  For a signed type
\* they are 0, 1, 3, the maximum, the minimum, -3 and -1.
ValuesOf(type) ==
    { <<>>, Digits(1), Digits(3), Pred(Pow2(type.bits - 1)), Pow2(type.bits - 1),
      WrappingSub(<<>>, Digits(3), type.bits), AllOnes(type.bits) }

FromRandTo32 ==
    /\ Idle
    /\ UNCHANGED <<poolVars, camera>>
    /\ \E type \in Types32, rnum \in Words32 : \E to \in ValuesOf(type) :
        /\ op' = "from_rand_32_to"
        /\ args' = [type |-> type, rnum |-> rnum, to |-> to]
        /\ res' = impl_32_from_rand_32_to(type, rnum, to)

FromRandTo64 ==
    /\ Idle
    /\ UNCHANGED <<poolVars, camera>>
    /\ \E type \in Types64, rnum \in Words64 : \E to \in ValuesOf(type) :
        /\ op' = "from_rand_64_to"
        /\ args' = [type |-> type, rnum |-> rnum, to |-> to]
        /\ res' = impl_64_from_rand_64_to(type, rnum, to)

FromRandRange32 ==
    /\ Idle
    /\ UNCHANGED <<poolVars, camera>>
    /\ \E type \in Types32, rnum \in Words32, checks \in BOOLEAN :
        \E from \in ValuesOf(type), to \in ValuesOf(type) :
            /\ op' = "from_rand_32_range"
            /\ args' = [type |-> type, rnum |-> rnum, from |-> from, to |-> to,
                        overflow_checks |-> checks]
            /\ res' = from_rand_32_range(type, rnum, from, to, checks)

FromRandRange64 ==
    /\ Idle
    /\ UNCHANGED <<poolVars, camera>>
    /\ \E type \in Types64, rnum \in Words64, checks \in BOOLEAN :
        \E from \in ValuesOf(type), to \in ValuesOf(type) :
            /\ op' = "from_rand_64_range"
            /\ args' = [type |-> type, rnum |-> rnum, from |-> from, to |-> to,
                        overflow_checks |-> checks]
            /\ res' = from_rand_64_range(type, rnum, from, to, checks)

RangeNext == FromRandRange32 \/ FromRandRange64 \/ FromRandTo32 \/ FromRandTo64 \/ Return

RangeSpec == Init /\ [][RangeNext]_vars

\* C21: from_rand_32_to() and from_rand_64_to() of an unsigned type return a
\* value below to, and 0 for to = 0, and nothing overflows inside
\* get_hi_bits_for_u64_mul(); those of a signed type return no negative value,
\* and 0 for a negative to; from_rand_32_range() and from_rand_64_range() with
\* from < to return a value that is not below from and is below to.
RangeStaysIn ==
    /\ op \in {"from_rand_32_to", "from_rand_64_to"} =>
        /\ ~args.type.signed =>
            IF args.to = <<>> THEN res = <<>> ELSE Below(res, args.to)
        /\ args.type.signed =>
            /\ ~IsNegative(res, args.type.bits)
            /\ IsNegative(args.to, args.type.bits) => res = <<>>
        /\ op = "from_rand_64_to" =>
            ~HiBits64Overflows(args.rnum, CastTo(args.to, args.type, 64))
    /\ (/\ op \in {"from_rand_32_range", "from_rand_64_range"}
        /\ LessIn(args.type, args.from, args.to)) =>
        /\ ~res.panic
        /\ ~LessIn(args.type, res.value, args.from)
        /\ LessIn(args.type, res.value, args.to)

----------------------------------------------------------------------------
(* Fractal::iterate (soh_math: fractal/mod.rs) *)

Complex_len2(c) == (c.re ** c.re) ++ (c.im ** c.im)

Complex_add(c, rhs) == [re |-> c.re ++ rhs.re, im |-> c.im ++ rhs.im]

\* What the loop of powi() leaves in result, from its locals result, k and a.
RECURSIVE PowiFrom(_, _, _)
PowiFrom(result, k, a) ==
    IF k = 0
    THEN result
    ELSE PowiFrom(IF 2 * (k \div 2) < k THEN Complex_mul(result, a) ELSE result,
                  k \div 2,
                  Complex_mul(a, a))

Complex_powi(c, pow) == PowiFrom(Complex_one, pow, c)

\* The sentinel, -999.99.
QUALIFIED == <<-99999, 100>>

\* Multibrot<u32>: start_point() and iter_func().
Multibrot_start_point(fractal, pixel_coord) == fractal.start_point

Multibrot_iter_func(fractal, z, pixel_coord) ==
    Complex_add(Complex_powi(z, fractal.pow), pixel_coord)

MaxIter == 3

\* The squares of the radii that bound the iteration.
LengthBounds == { R(4), R(16) }

\* iterate() is called on a Multibrot of power 2: counter and z are set.
Iterate ==
    /\ Idle
    /\ UNCHANGED <<poolVars, camera>>
    /\ \E start \in {Complex_new(ZERO, ZERO), Complex_new(TWO, ZERO)},
          pixel_coord \in Bases, iteration_bound \in 0..MaxIter,
          length_bound \in LengthBounds :
        LET fractal == [start_point |-> start, pow |-> 2]
        IN  /\ op' = "Fractal::iterate"
            /\ args' = [self |-> fractal, pixel_coord |-> pixel_coord,
                        iteration_bound |-> iteration_bound,
                        length_bound |-> length_bound]
            /\ res' = [pc |-> "while", counter |-> 0,
                       z |-> Multibrot_start_point(fractal, pixel_coord),
                       value |-> [from |-> "", f64 |-> <<>>]]

\* The condition of the loop.
IterateOn ==
    /\ res.counter < args.iteration_bound
    /\ RLt(Complex_len2(res.z), args.length_bound)

\* One turn of the loop.
IterateLoop ==
    /\ op = "Fractal::iterate"
    /\ res.pc = "while"
    /\ IterateOn
    /\ res' = [res EXCEPT !.z = Multibrot_iter_func(args.self, res.z, args.pixel_coord),
                          !.counter = res.counter + 1]
    /\ UNCHANGED <<op, args>>
    /\ UNCHANGED <<poolVars, camera>>

\* The loop is left: iterate() returns the sentinel, or what iter_to_value()
\* makes of z and counter, a number that is not computed here.
IterateReturn ==
    /\ op = "Fractal::iterate"
    /\ res.pc = "while"
    /\ ~IterateOn
    /\ res' = [res EXCEPT !.pc = "return",
                          !.value = IF res.counter = args.iteration_bound
                                    THEN [from |-> "QUALIFIED", f64 |-> QUALIFIED]
                                    ELSE [from |-> "iter_to_value", f64 |-> <<>>]]
    /\ UNCHANGED <<op, args>>
    /\ UNCHANGED <<poolVars, camera>>

\* The caller takes the value.
IterateTaken ==
    /\ op = "Fractal::iterate"
    /\ res.pc = "return"
    /\ op' = "init"
    /\ args' = <<>>
    /\ res' = <<>>
    /\ UNCHANGED <<poolVars, camera>>

IterateNext == IterateReturn \/ IterateLoop \/ Iterate \/ IterateTaken

IterateSpec == Init /\ [][IterateNext]_vars /\ WF_vars(IterateLoop) /\ WF_vars(IterateReturn)

\* z has left the bound.
BlewUp == ~RLt(Complex_len2(res.z), args.length_bound)

\* C22: iterate() applies iter_func at most iteration_bound times, and it
\* returns QUALIFIED exactly when z has not left the bound: when z leaves it,
\* on the last turn or before, it returns what iter_to_value() gives.
QualifiedIffBounded ==
    op = "Fractal::iterate" =>
        /\ res.counter <= args.iteration_bound
        /\ res.pc = "return" => (res.value.from = "QUALIFIED" <=> ~BlewUp)

----------------------------------------------------------------------------
(* The divisor of invert() (mat2.rs, mat3.rs, mat4.rs) *)

\* C23: the divisor Mat3::invert and Mat4::invert compute, the first row of
\* self dotted with the first column of invert_no_det(), is det() for every
\* matrix, so that invert() is invert_no_det() / det(), as it is for Mat2.
InvertDividesByDet ==
    /\ op = "Mat2::invert" =>
        LET M == Mat2_from_rows(Rows2(args.rows))
        IN  res = Mat2_div(Mat2_invert_no_det(M), Mat2_det(M))
    /\ op = "Mat3::invert" =>
        LET M == Mat3_from_rows(Rows3(args.rows))
        IN  /\ Mat3_invert_det(M, Mat3_invert_no_det(M)) = Mat3_det(M)
            /\ res = Mat3_div(Mat3_invert_no_det(M), Mat3_det(M))
    /\ op = "Mat4::invert" =>
        LET M == Mat4_from_rows(Rows4(args.rows))
        IN  /\ Mat4_invert_det(M, Mat4_invert_no_det(M)) = Mat4_det(M)
            /\ res = Mat4_div(Mat4_invert_no_det(M), Mat4_det(M))

\* Mat4::invert has inverted the first matrix of the library's test, whose
\* determinant is not 0.
InvertDetWitness ==
    /\ op = "Mat4::invert"
    /\ args.rows = TestM1_4
    /\ Mat4_det(Mat4_from_rows(Rows4(args.rows))) # ZERO
    /\ res = Mat4_div(Mat4_invert_no_det(Mat4_from_rows(Rows4(args.rows))),
                      Mat4_det(Mat4_from_rows(Rows4(args.rows))))

----------------------------------------------------------------------------
(* The camera (soh_game: camera/cam.rs; Mat4::perspective of mat4.rs) *)

\* tan(fov.to_radians() / 2) for the fields of view used below, in degrees:
\* tan(35 deg) to seven decimals and tan(45 deg).
TanHalfFov(fov) ==
    CASE fov = <<70, 1>> -> <<280083, 400000>>
      [] fov = <<90, 1>> -> ONE

Mat4_perspective(fov, aspect, near, far) ==
    LET cot == ONE // TanHalfFov(fov)
        far_near == ONE // (far -- near)
    IN  << cot // aspect, ZERO, ZERO, ZERO,
           ZERO, cot, ZERO, ZERO,
           ZERO, ZERO, far_near, ONE,
           ZERO, ZERO, Neg(near) ** far_near, ZERO >>

\* Camera::new().  view_fetched and proj_fetched are no fields of the struct:
\* they record that get_view(), get_proj() was called after the last mutator
\* of the view, of the projection.
Camera_new ==
    [ built |-> TRUE,
      pos |-> Vec3_ZERO,
      axis |-> Mat3_identity,
      fov |-> <<70, 1>>,
      aspect |-> ONE,
      near |-> <<1, 100>>,
      far |-> <<10, 1>>,
      was_view_updated |-> TRUE,
      was_proj_updated |-> TRUE,
      view |-> Mat4_identity,
      proj |-> Mat4_identity,
      view_fetched |-> FALSE,
      proj_fetched |-> FALSE ]

Camera_was_updated(c) == c.was_view_updated \/ c.was_proj_updated

Camera_was_view_updated(c) == c.was_view_updated

Camera_was_proj_updated(c) == c.was_proj_updated

\* pos_mut() and the write through the reference it returns; axis_mut()
\* likewise.
Camera_pos_mut(c, pos) == [c EXCEPT !.was_view_updated = TRUE, !.pos = pos]

Camera_axis_mut(c, axis) == [c EXCEPT !.was_view_updated = TRUE, !.axis = axis]

Camera_set_pos(c, pos) == [c EXCEPT !.was_view_updated = TRUE, !.pos = pos]

Camera_rotate_view_x(c, angle) ==
    [c EXCEPT !.was_view_updated = TRUE,
              !.axis = Mat3_mul(Mat3_from_axis_angle(Mat3_col(c.axis, 0), angle), c.axis)]

Camera_rotate_world_z(c, angle) ==
    [c EXCEPT !.was_view_updated = TRUE,
              !.axis = Mat3_mul(Mat3_yaw(angle), c.axis)]

Camera_set_fov(c, fov) == [c EXCEPT !.fov = fov, !.was_proj_updated = TRUE]

Camera_set_aspect(c, aspect) == [c EXCEPT !.aspect = aspect, !.was_proj_updated = TRUE]

Camera_set_near_far(c, near, far) ==
    [c EXCEPT !.near = near, !.far = far, !.was_proj_updated = TRUE]

\* update_view(): the camera after it; it returns the view of that camera.
Camera_update_view(c) ==
    LET axis_inverse == Mat3_t(c.axis)
        pos_inverse == Mat3_mul_vec(Mat3_neg(axis_inverse), c.pos)
    IN  [c EXCEPT !.view = Mat4_from_3x3_vec(axis_inverse, pos_inverse)]

\* update_proj(): the camera after it; it returns the proj of that camera.
Camera_update_proj(c) ==
    LET proj == Mat4_perspective(c.fov, c.aspect, c.near, c.far)
        flip_x == [proj EXCEPT ![Mat4_at_mut(0, 0) + 1] = Neg(Mat4_at(proj, 0, 0))]
        flip_y == [flip_x EXCEPT ![Mat4_at_mut(1, 1) + 1] = Neg(Mat4_at(flip_x, 1, 1))]
    IN  [c EXCEPT !.proj = flip_y]

\* get_view() that trusts the cache.
Camera_get_view_cached(c) == [camera |-> c, value |-> c.view]

\* get_view(): the camera after it and the matrix it returns.
Camera_get_view(c) ==
    IF ~c.was_view_updated
    THEN [camera |-> c, value |-> c.view]
    ELSE [camera |-> Camera_update_view(c), value |-> Camera_update_view(c).view]

Camera_get_proj(c) ==
    IF ~c.was_proj_updated
    THEN [camera |-> c, value |-> c.proj]
    ELSE [camera |-> Camera_update_proj(c), value |-> Camera_update_proj(c).proj]

\* The inputs of the mutators: a position, a frame a quarter turn off the
\* first one, the half turn, two fields of view, two aspect ratios, two pairs
\* of planes.
Positions == { Vec3_new(ONE, TWO, ZERO) }

Frames == { Mat3_yaw(AngleOf(ZERO, ONE)) }

Turns == { AngleOf(Neg(ONE), ZERO) }

Fovs == { <<70, 1>>, <<90, 1>> }

Aspects == { ONE, TWO }

Planes == { << <<1, 100>>, <<10, 1>> >>, << ONE, <<5, 1>> >> }

CameraNew ==
    /\ ~camera.built
    /\ camera' = Camera_new
    /\ op' = "Camera::new"
    /\ args' = <<>>
    /\ res' = <<>>
    /\ UNCHANGED poolVars

\* A mutator of the view has run on the camera c.
ViewMutated(name, c) ==
    /\ camera' = [c EXCEPT !.view_fetched = FALSE]
    /\ op' = name
    /\ args' = <<>>
    /\ res' = <<>>
    /\ UNCHANGED poolVars

\* A mutator of the projection has run on the camera c.
ProjMutated(name, c) ==
    /\ camera' = [c EXCEPT !.proj_fetched = FALSE]
    /\ op' = name
    /\ args' = <<>>
    /\ res' = <<>>
    /\ UNCHANGED poolVars

PosMut ==
    /\ camera.built
    /\ \E pos \in Positions : ViewMutated("Camera::pos_mut", Camera_pos_mut(camera, pos))

AxisMut ==
    /\ camera.built
    /\ \E axis \in Frames : ViewMutated("Camera::axis_mut", Camera_axis_mut(camera, axis))

SetPos ==
    /\ camera.built
    /\ \E pos \in Positions : ViewMutated("Camera::set_pos", Camera_set_pos(camera, pos))

RotateViewX ==
    /\ camera.built
    /\ \E angle \in Turns :
        ViewMutated("Camera::rotate_view_x", Camera_rotate_view_x(camera, angle))

RotateWorldZ ==
    /\ camera.built
    /\ \E angle \in Turns :
        ViewMutated("Camera::rotate_world_z", Camera_rotate_world_z(camera, angle))

SetFov ==
    /\ camera.built
    /\ \E fov \in Fovs : ProjMutated("Camera::set_fov", Camera_set_fov(camera, fov))

SetAspect ==
    /\ camera.built
    /\ \E aspect \in Aspects :
        ProjMutated("Camera::set_aspect", Camera_set_aspect(camera, aspect))

SetNearFar ==
    /\ camera.built
    /\ \E planes \in Planes :
        ProjMutated("Camera::set_near_far",
                    Camera_set_near_far(camera, planes[1], planes[2]))

GetView ==
    /\ camera.built
    /\ camera' = [Camera_get_view(camera).camera EXCEPT !.view_fetched = TRUE]
    /\ op' = "Camera::get_view"
    /\ args' = <<>>
    /\ res' = Camera_get_view(camera).value
    /\ UNCHANGED poolVars

GetProj ==
    /\ camera.built
    /\ camera' = [Camera_get_proj(camera).camera EXCEPT !.proj_fetched = TRUE]
    /\ op' = "Camera::get_proj"
    /\ args' = <<>>
    /\ res' = Camera_get_proj(camera).value
    /\ UNCHANGED poolVars

\* was_updated(), was_view_updated() and was_proj_updated() are called.
WasUpdated ==
    /\ camera.built
    /\ op' = "Camera::was_updated"
    /\ args' = <<>>
    /\ res' = [was_updated |-> Camera_was_updated(camera),
               was_view_updated |-> Camera_was_view_updated(camera),
               was_proj_updated |-> Camera_was_proj_updated(camera)]
    /\ UNCHANGED <<poolVars, camera>>

CameraNext ==
    \/ GetView \/ GetProj \/ WasUpdated
    \/ CameraNew
    \/ PosMut \/ AxisMut \/ SetPos \/ RotateViewX \/ RotateWorldZ
    \/ SetFov \/ SetAspect \/ SetNearFar

CameraSpec == Init /\ [][CameraNext]_vars

\* C24: get_view() leaves was_view_updated cleared and get_proj() leaves
\* was_proj_updated cleared, so that the flags are true only if a mutator ran
\* since the matrix was fetched: was_view_updated() is false once get_view()
\* was called after the last mutator of the view, was_proj_updated() likewise,
\* and was_updated() is false once both were.
DirtyFlagsCleared ==
    /\ op = "Camera::get_view" => ~camera.was_view_updated
    /\ op = "Camera::get_proj" => ~camera.was_proj_updated
    /\ op = "Camera::was_updated" =>
        /\ camera.view_fetched => ~res.was_view_updated
        /\ camera.proj_fetched => ~res.was_proj_updated
        /\ (camera.view_fetched /\ camera.proj_fetched) => ~res.was_updated

\* C25: get_view() returns from_3x3_vec(axis.t(), -(axis.t()) * pos) for the
\* pos and the axis the camera has, and get_proj() returns
\* perspective(fov, aspect, near, far) for the parameters it has, with the
\* elements (0, 0) and (1, 1) negated; neither returns a stale matrix.
CacheCoherent ==
    /\ op = "Camera::get_view" =>
        res = Mat4_from_3x3_vec(Mat3_t(camera.axis),
                                Mat3_mul_vec(Mat3_neg(Mat3_t(camera.axis)), camera.pos))
    /\ op = "Camera::get_proj" =>
        LET p == Mat4_perspective(camera.fov, camera.aspect, camera.near, camera.far)
        IN  /\ Mat4_at(res, 0, 0) = Neg(Mat4_at(p, 0, 0))
            /\ Mat4_at(res, 1, 1) = Neg(Mat4_at(p, 1, 1))
            /\ \A i \in 0..15 : i \notin {0, 5} => E(res, i) = E(p, i)

\* get_view() is called a second time, after the position and the axis were
\* changed since the first, and returns the matrix of the new ones.
CacheWitness ==
    /\ op = "Camera::get_view"
    /\ camera.view_fetched
    /\ camera.pos = Vec3_new(ONE, TWO, ZERO)
    /\ camera.axis = Mat3_yaw(AngleOf(ZERO, ONE))
    /\ res = << ZERO, Neg(ONE), ZERO, ZERO,
                ONE, ZERO, ZERO, ZERO,
                ZERO, ZERO, ONE, ZERO,
                Neg(TWO), ONE, ZERO, ONE >>

----------------------------------------------------------------------------
(* The thread pool: every job runs once, and every job runs *)

\* How many times x is in the sequence s.
Times(x, s) == Cardinality({ i \in 1..Len(s) : s[i] = x })

\* The workers that run the job j.
Runners(j) == { w \in Running : workers[w].job = j }

ProgressNext == AddJob \/ New \/ Poke \/ (\E w \in DOMAIN workers : LockReceiver(w) \/ Recv(w) \/ Finished(w) \/ AddsJob(w))

ProgressSpec ==
    /\ Init
    /\ [][ProgressNext]_vars
    /\ WF_vars(Poke)
    /\ WF_vars(\E w \in DOMAIN workers : LockReceiver(w))
    /\ WF_vars(\E w \in DOMAIN workers : Recv(w))
    /\ \A w \in 1..(MaxSize - 1) : WF_vars(w \in DOMAIN workers /\ Finished(w))

\* C27: with a pool built and poke() called repeatedly, every job added, by
\* the caller or by a running job, finishes, and poke() returns true at last;
\* poke() and add_job are never kept waiting by a worker.
Progress ==
    /\ \A j \in 1..MaxJobs :
        (sender = "some" /\ added >= j) ~> (Times(j, finished) = 1)
    /\ (sender = "some") ~> (op = "ThreadPool::poke" /\ res = TRUE /\ jobs = <<>> /\ in_process = 0)
    /\ [](sender = "some" => ENABLED Poke)
    /\ []((sender = "some" /\ added < MaxJobs) => ENABLED AddJob)

\* As many jobs as can be were added, all of them have finished, and poke()
\* has returned true.
ProgressWitness ==
    /\ op = "ThreadPool::poke"
    /\ res = TRUE
    /\ added = MaxJobs
    /\ Len(finished) = MaxJobs
    /\ args.waiting = 0

====
